---- MODULE Spec2Model ----
(***************************************************************************)
(* Model of the meme-wars commit-reveal turn engine: GameState and its     *)
(* operations (game.rs), the dual-stream random generator (rng.rs), the    *)
(* commitment function (crypto.rs) and the card catalog (catalog.rs).      *)
(*                                                                         *)
(* Every engine operation is a pure operator from a GameState (a record)   *)
(* to a result [g |-> GameState, ret |-> "ok" or the error string]; the    *)
(* Rust `?` early-return is modelled by returning the GameState as mutated *)
(* up to the point of the error, since the methods mutate `&mut self` in   *)
(* place.  Option<T> is a sequence: <<>> is None and <<x>> is Some(x).     *)
(***************************************************************************)
EXTENDS Integers, Sequences, FiniteSets, TLC

VARIABLES
    game,        \* the GameState held by the host's process
    remote,      \* the synced GameState held by the opponent's process
    ret,         \* what the last engine call that changed `game` returned
    bound_hash   \* per seat: the hash it was committed to when it first saw
                 \* the other seat's reveal in this turn (<<>> when none)

vars == <<game, remote, ret, bound_hash>>

---------------------------------------------------------------------------
(* constants.rs *)
FEED_SIZE == 3
STARTING_HAND == 2
MAX_HAND_SIZE == 4
MAX_DECK_SIZE == 12
MEME_LIMIT == 4
EXPLOIT_LIMIT == 8
STARTING_MANA == 2
MANA_CAP == 10
BASE_COOK == 1
BASE_FEED_YIELD == 10
FEED_YIELD_STEP == 5
SCORE_TO_WIN == 30

(* widths of the integer types that saturate or wrap in the code *)
U8_MAX == 255

---------------------------------------------------------------------------
(* generic helpers standing for Vec / Ord methods *)
Min(a, b) == IF a < b THEN a ELSE b
Max(a, b) == IF a > b THEN a ELSE b
saturating_sub(a, b) == IF a > b THEN a - b ELSE 0
saturating_add(a, b) == Min(a + b, U8_MAX)
saturating_mul(a, b) == Min(a * b, U8_MAX)

\* Vec::remove(idx), 1-based
RemoveAt(s, i) == [j \in 1..(Len(s) - 1) |-> IF j < i THEN s[j] ELSE s[j + 1]]
\* Vec::insert(idx, x): x ends at 1-based position i
InsertAt(s, i, x) ==
    [j \in 1..(Len(s) + 1) |-> IF j < i THEN s[j] ELSE IF j = i THEN x ELSE s[j - 1]]
\* slice::swap(i, j), 1-based
Swap(s, i, j) ==
    [k \in 1..Len(s) |-> IF k = i THEN s[j] ELSE IF k = j THEN s[i] ELSE s[k]]
\* Vec::pop: the sequence without its last element
Front(s) == SubSeq(s, 1, Len(s) - 1)
\* Iterator::position(pred): the first 1-based index whose element satisfies
\* P, or 0 when there is none
PositionOf(s, P(_)) ==
    IF \E i \in 1..Len(s) : P(s[i])
    THEN CHOOSE i \in 1..Len(s) : P(s[i]) /\ \A j \in 1..(i - 1) : ~P(s[j])
    ELSE 0
Range(s) == {s[i] : i \in 1..Len(s)}
\* `let x = v;` followed by the rest of the block: v is computed once and
\* handed to the rest as x
Let(v, rest(_)) == rest(v)
\* `let x = call?;` on a Result: an error returns at once with the GameState
\* as the call left it, otherwise the rest runs on that GameState
Try(r, rest(_)) == IF r.ret # "ok" THEN r ELSE rest(r.g)

---------------------------------------------------------------------------
(* types.rs *)
Seats == {"Host", "Opponent"}
SeatOrder == <<"Host", "Opponent">>      \* GameState.players: Host first
other(seat) == IF seat = "Host" THEN "Opponent" ELSE "Host"

\* instance_id is format!("{}-{}", def.id, n): the pair <<variant, n>>
NoId == <<"", 0>>
instance_id(variant, n) == <<variant, n>>

\* Target
TargetCard(id) == [t |-> "Card", id |-> id, slot |-> 0]
TargetFeedSlot(slot) == [t |-> "FeedSlot", id |-> NoId, slot |-> slot]
TargetEnemyKitchen == [t |-> "EnemyKitchen", id |-> NoId, slot |-> 0]
TargetAnyKitchen == [t |-> "AnyKitchen", id |-> NoId, slot |-> 0]

\* Keyword
Kw(k) == [k |-> k, n |-> 0]
KwN(k, n) == [k |-> k, n |-> n]
HasKw(card, k) == \E w \in card.keywords : w.k = k

\* Ability { trigger, effect }
Effect(e, n) == [e |-> e, n |-> n, variant |-> "", loc |-> "", max |-> 0]
Ability(trigger, effect) == [trigger |-> trigger, effect |-> effect]
SpawnEffect(variant, count, loc) ==
    [e |-> "Spawn", n |-> count, variant |-> variant, loc |-> loc, max |-> 0]
RandomizeEffect(min, max) ==
    [e |-> "RandomizeVirality", n |-> min, variant |-> "", loc |-> "", max |-> max]

\* ExploitEffect; the Damage variant carries a default target
Exploit(e, n) == [e |-> e, n |-> n, target |-> TargetEnemyKitchen]
NoEffect == [e |-> "None", n |-> 0, target |-> TargetEnemyKitchen]

\* Location
Loc(zone) == [zone |-> zone, slot |-> 0]
LocFeed(slot) == [zone |-> "Feed", slot |-> slot]

\* TurnPlan; `based` is the stake-call flag read by resolve_if_ready
TurnPlan(plays, posts, exploits, based) ==
    [plays_to_kitchen |-> plays, posts |-> posts, exploits |-> exploits,
     based |-> based]
DefaultPlan == TurnPlan(<<>>, <<>>, <<>>, FALSE)
ExploitAction(card_id, target) == [card_id |-> card_id, target |-> target]

---------------------------------------------------------------------------
(* crypto.rs, and the SHA-256 digests of rng.rs.  A digest is modelled as  *)
(* the tagged preimage: equal digests exactly for equal inputs.            *)
Sha256(x) == <<"sha256", x>>

\* serde_json of a plan followed by the salt bytes: a JSON object is never
\* a proper prefix of another, so the concatenation determines both parts
commitment_for(plan, salt) == Sha256(<<plan, salt>>)

---------------------------------------------------------------------------
(* catalog.rs *)
base_meme(id, cost, base_virality, cook_rate, keywords, abilities, volatile, initial_freeze) ==
    [id |-> id, cost |-> cost, kind |-> "Meme", effect |-> NoEffect,
     base_virality |-> base_virality, cook_rate |-> cook_rate, yield_rate |-> 1,
     keywords |-> keywords, abilities |-> abilities, volatile |-> volatile,
     initial_freeze |-> initial_freeze]

base_exploit(id, cost, effect) ==
    [id |-> id, cost |-> cost, kind |-> "Exploit", effect |-> effect,
     base_virality |-> 0, cook_rate |-> 0, yield_rate |-> 0,
     keywords |-> {}, abilities |-> <<>>, volatile |-> <<>>,
     initial_freeze |-> <<>>]

normies == <<
    base_meme("n01", 1, 4, BASE_COOK, {}, <<>>, <<>>, <<>>),
    base_meme("n02", 2, 6, BASE_COOK, {}, <<>>, <<>>, <<>>),
    base_meme("n03", 3, 8, BASE_COOK, {}, <<>>, <<>>, <<>>),
    base_meme("n04", 4, 10, BASE_COOK, {},
              <<Ability("OnPost", Effect("DamageBelow", 2))>>, <<>>, <<>>),
    base_meme("n05", 6, 15, BASE_COOK, {}, <<>>, <<>>, <<>>),
    base_exploit("n06", 2, Exploit("ResurrectLast", 0)),
    base_exploit("n07", 3, Exploit("Boost", 5)),
    base_meme("n08", 2, 4, BASE_COOK, {Kw("Stealth")}, <<>>, <<>>, <<>>),
    base_meme("n09", 1, 2, BASE_COOK, {Kw("Haste")}, <<>>, <<>>, <<>>),
    base_meme("n10", 3, 12, BASE_COOK, {}, <<>>, <<3>>, <<>>) >>

chefs == <<
    base_meme("c01", 2, 2, 3, {}, <<>>, <<>>, <<>>),
    base_meme("c02", 1, 1, 4, {Kw("Fragile")}, <<>>, <<>>, <<>>),
    base_meme("c03", 3, 4, BASE_COOK, {},
              <<Ability("AuraKitchen", Effect("BuffOtherKitchen", 2))>>, <<>>, <<>>),
    base_meme("c04", 1, 1, BASE_COOK, {},
              <<Ability("OnPlayKitchen", SpawnEffect("c04", 1, "Kitchen"))>>,
              <<>>, <<>>),
    base_meme("c05", 4, 5, BASE_COOK, {KwN("Shielded", 2)}, <<>>, <<>>, <<>>),
    base_exploit("c06", 2, Exploit("Protect", 0)),
    base_exploit("c07", 4, Exploit("Double", 0)),
    base_meme("c08", 2, 3, BASE_COOK, {Kw("HealKitchen")}, <<>>, <<>>, <<>>),
    base_meme("c09", 1, 6, BASE_COOK, {}, <<>>, <<>>, <<3>>),
    base_meme("c10", 2, 3, BASE_COOK, {},
              <<Ability("OnPlayKitchen", Effect("BuffSelf", 3))>>, <<>>, <<>>) >>

trolls == <<
    base_exploit("t01", 1, Exploit("Damage", 3)),
    base_exploit("t02", 2, Exploit("Damage", 5)),
    base_exploit("t03", 4, Exploit("AreaDamageKitchen", 2)),
    base_exploit("t04", 3, Exploit("NukeBelow", 5)),
    base_meme("t05", 2, 4, BASE_COOK, {},
              <<Ability("OnPost", Effect("DrainBelow", 2))>>, <<>>, <<>>),
    base_meme("t06", 3, 5, BASE_COOK, {},
              <<Ability("OnPost", Effect("SwapBelow", 0))>>, <<>>, <<>>),
    base_meme("t07", 1, 2, BASE_COOK, {},
              <<Ability("OnPost", Effect("PingOpponentTop", 1))>>, <<>>, <<>>),
    base_exploit("t08", 2, Exploit("Debuff", 3)),
    base_exploit("t09", 5, Exploit("Execute", 0)),
    base_meme("t10", 2, 3, BASE_COOK, {Kw("Taunt")}, <<>>, <<>>, <<>>) >>

mods == <<
    base_meme("m01", 5, 8, BASE_COOK, {},
              <<Ability("OnPost", Effect("Knockback", 2))>>, <<>>, <<>>),
    base_exploit("m02", 2, Exploit("PinSlot", 0)),
    base_exploit("m03", 3, Exploit("Silence", 0)),
    base_meme("m04", 3, 6, BASE_COOK, {KwN("Gatekeeper", 3)}, <<>>, <<>>, <<>>),
    base_exploit("m05", 1, Exploit("MoveUp", 1)),
    base_exploit("m06", 4, Exploit("LockFeed", 0)),
    base_meme("m07", 2, 4, BASE_COOK, {Kw("Anchor")}, <<>>, <<>>, <<>>),
    base_meme("m08", 1, 3, BASE_COOK, {},
              <<Ability("OnAbyss", Effect("GainMana", 1))>>, <<>>, <<>>),
    base_meme("m09", 4, 5, BASE_COOK, {},
              <<Ability("OnFeedTurnEnd", Effect("BuffSelf", 2))>>, <<>>, <<>>),
    base_exploit("m10", 0, Exploit("DiscountNext", 0)) >>

degens == <<
    base_exploit("d01", 6, Exploit("WipeBottom", 3)),
    base_meme("d02", 3, 1, BASE_COOK, {},
              <<Ability("OnPost", RandomizeEffect(1, 15))>>, <<>>, <<>>),
    base_meme("d03", 2, 3, BASE_COOK, {},
              <<Ability("OnPost", SpawnEffect("d06", 2, "Kitchen"))>>, <<>>, <<>>),
    base_meme("d04", 1, 10, BASE_COOK, {Kw("Fragile")}, <<>>, <<>>, <<>>),
    base_meme("d05", 2, 2, BASE_COOK, {},
              <<Ability("OnPost", Effect("BuffSelf", 10)),
                Ability("OnFeedTurnEnd", Effect("SelfDestructNext", 0))>>,
              <<>>, <<>>),
    base_meme("d06", 0, 1, BASE_COOK, {}, <<>>, <<>>, <<>>),
    base_exploit("d07", 3, Exploit("SpawnShitposts", 3)),
    base_exploit("d08", 2, Exploit("Tax", 2)),
    base_exploit("d09", 4, Exploit("ShuffleFeed", 0)),
    base_meme("d10", 5, 20, BASE_COOK, {Kw("Heavy")}, <<>>, <<>>, <<>>) >>

build_catalog == normies \o chefs \o trolls \o mods \o degens

\* Option<&CardDefinition>: the first catalog entry with this id
find_definition(id) ==
    Let(build_catalog, LAMBDA cat :
    Let(PositionOf(cat, LAMBDA d : d.id = id), LAMBDA i :
    IF i = 0 THEN <<>> ELSE <<cat[i]>>))

---------------------------------------------------------------------------
(* game.rs: instantiate_card / new_instance_from_def.  The two build the   *)
(* same CardInstance and differ in played_turn and location only.          *)
shield_of(keywords) ==
    IF \E w \in keywords : w.k = "Shielded"
    THEN (CHOOSE w \in keywords : w.k = "Shielded").n
    ELSE 0

CardInstance(n, def, owner, played_turn, location) ==
    [instance_id |-> instance_id(def.id, n),
     variant_id |-> def.id,
     owner |-> owner,
     cost |-> def.cost,
     class |-> [kind |-> def.kind, effect |-> def.effect],
     base_virality |-> def.base_virality,
     current_virality |-> def.base_virality,
     cook_rate |-> def.cook_rate,
     yield_rate |-> def.yield_rate,
     keywords |-> def.keywords,
     abilities |-> def.abilities,
     volatile |-> def.volatile,
     frozen_turns |-> IF def.initial_freeze = <<>> THEN 0 ELSE def.initial_freeze[1],
     protected_until_end |-> FALSE,
     shield |-> shield_of(def.keywords),
     played_turn |-> played_turn,
     location |-> location]

instantiate_card(next_instance, def, owner) ==
    CardInstance(next_instance, def, owner, 0, Loc("Deck"))

\* returns the card and the GameState with next_instance advanced
new_instance_from_def(g, def, owner, location) ==
    [card |-> CardInstance(g.next_instance, def, owner, g.turn, location),
     g |-> [g EXCEPT !.next_instance = @ + 1]]

is_meme(card) == card.class.kind = "Meme"

---------------------------------------------------------------------------
(* rng.rs *)

\* derive_seed and the Pcg64Mcg stream are digests and a generator of an
\* external crate; they are modelled by small arithmetic functions that are
\* deterministic in exactly the arguments the code feeds them.
SeedSpace == 1009
derive_seed(base, label) ==
    (base * 31 + (IF label = "host" THEN 17 ELSE 59)) % SeedSpace

\* the value gen_range(0..bound) returns after `draws` calls of next_u64 on
\* the generator seeded by pcg_from_seed(seed)
StreamModulus == 65521
pcg_draw(seed, draws, bound) ==
    (((seed + 1) * (draws + 7) * 7919 + draws * draws * 13 + seed) % StreamModulus)
        % bound

contribution_commitment(value, salt) == Sha256(<<value, salt>>)

\* `our` is hyperware_process_lib::our().node of the process that runs the
\* engine
contribution_signature(our, commitment, seat) == Sha256(<<commitment, seat, our>>)

RandomContribution_new(our, seat, value, salt) ==
    LET commitment == contribution_commitment(value, salt)
    IN [seat |-> seat, value |-> value, salt |-> salt,
        commitment |-> commitment,
        signature |-> contribution_signature(our, commitment, seat)]

\* RandomEventKind
KindShuffleDeck(seat) == [k |-> "ShuffleDeck", seat |-> seat, id |-> NoId]
KindShuffleFeed == [k |-> "ShuffleFeed", seat |-> "", id |-> NoId]
KindRandomizeVirality(id) == [k |-> "RandomizeVirality", seat |-> "", id |-> id]

FairRandomState_new(seed) ==
    [host_seed |-> derive_seed(seed, "host"),
     opponent_seed |-> derive_seed(seed, "opponent"),
     host_draws |-> 0,
     opponent_draws |-> 0,
     history |-> <<>>]

\* generate that counts the draw for the Host only
generate_counting_host(rng, our, bound, turn, kind) ==
    IF bound = 0 THEN [rng |-> rng, result |-> 0]
    ELSE
    LET hv == pcg_draw(rng.host_seed, rng.host_draws, bound)
        hd == rng.host_draws + 1
        host_value ==
            RandomContribution_new(our, "Host", hv, <<turn, "host", hd, kind>>)
        ov == pcg_draw(rng.opponent_seed, rng.opponent_draws, bound)
        od == rng.opponent_draws
        opponent_value ==
            RandomContribution_new(our, "Opponent", ov, <<turn, "opponent", od, kind>>)
        result == (host_value.value + opponent_value.value) % bound
        event == [turn |-> turn, bound |-> bound, result |-> result, kind |-> kind,
                  contributions |-> <<host_value, opponent_value>>]
    IN [rng |-> [rng EXCEPT !.host_draws = hd, !.opponent_draws = od,
                            !.history = Append(@, event)],
        result |-> result]

\* generate whose result also depends on the turn number
generate_mixing_turn(rng, our, bound, turn, kind) ==
    IF bound = 0 THEN [rng |-> rng, result |-> 0]
    ELSE
    LET hv == pcg_draw(rng.host_seed, rng.host_draws, bound)
        ov == pcg_draw(rng.opponent_seed, rng.opponent_draws, bound)
        result == (hv + ov + turn) % bound
        event == [turn |-> turn, bound |-> bound, result |-> result, kind |-> kind,
                  contributions |->
                      <<RandomContribution_new(our, "Host", hv,
                            <<turn, "host", rng.host_draws + 1, kind>>),
                        RandomContribution_new(our, "Opponent", ov,
                            <<turn, "opponent", rng.opponent_draws + 1, kind>>)>>]
    IN [rng |-> [rng EXCEPT !.host_draws = @ + 1, !.opponent_draws = @ + 1,
                            !.history = Append(@, event)],
        result |-> result]

\* FairRandomState::generate: [rng |-> the new state, result |-> the value]
generate(rng, our, bound, turn, kind) ==
    IF bound = 0 THEN [rng |-> rng, result |-> 0]
    ELSE
    LET hv == pcg_draw(rng.host_seed, rng.host_draws, bound)
        hd == rng.host_draws + 1
        host_value ==
            RandomContribution_new(our, "Host", hv, <<turn, "host", hd, kind>>)
        ov == pcg_draw(rng.opponent_seed, rng.opponent_draws, bound)
        od == rng.opponent_draws + 1
        opponent_value ==
            RandomContribution_new(our, "Opponent", ov, <<turn, "opponent", od, kind>>)
        result == (host_value.value + opponent_value.value) % bound
        event == [turn |-> turn, bound |-> bound, result |-> result, kind |-> kind,
                  contributions |-> <<host_value, opponent_value>>]
    IN [rng |-> [rng EXCEPT !.host_draws = hd, !.opponent_draws = od,
                            !.history = Append(@, event)],
        result |-> result]

\* FairRandomState::shuffle, the loop `for i in (1..len).rev()` from the
\* 0-based index i down to 1: [rng, items]
RECURSIVE shuffle_from(_, _, _, _, _, _)
shuffle_from(rng, our, items, i, turn, kind) ==
    IF i < 1 THEN [rng |-> rng, items |-> items]
    ELSE Let(generate(rng, our, i + 1, turn, kind), LAMBDA r :
         shuffle_from(r.rng, our, Swap(items, i + 1, r.result + 1), i - 1,
                      turn, kind))

shuffle(rng, our, items, turn, kind) ==
    IF Len(items) <= 1 THEN [rng |-> rng, items |-> items]
    ELSE shuffle_from(rng, our, items, Len(items) - 1, turn, kind)

---------------------------------------------------------------------------
(* game.rs: PlayerState *)
Ok(g) == [g |-> g, ret |-> "ok"]
Err(g, e) == [g |-> g, ret |-> e]

PlayerState_new(seat, node_id, deck) ==
    [seat |-> seat, node_id |-> node_id, deck |-> deck, hand |-> <<>>,
     kitchen |-> <<>>, abyss |-> <<>>, mana |-> STARTING_MANA,
     max_mana |-> STARTING_MANA, score |-> 0, cost_discount |-> 0,
     mana_tax_next |-> 0, commit |-> <<>>, feed_locked |-> FALSE,
     pinned_slots |-> <<>>]

\* a drawn card enters the hand, or the Abyss when the hand is full
take_into_hand(p, card) ==
    LET c == [card EXCEPT !.location = Loc("Hand"), !.played_turn = 0]
    IN IF Len(p.hand) >= MAX_HAND_SIZE
       THEN [p EXCEPT !.abyss = Append(@, [c EXCEPT !.location = Loc("Abyss")])]
       ELSE [p EXCEPT !.hand = Append(@, c)]

\* PlayerState::draw_card (it never fails)
draw_card(p) ==
    IF Len(p.deck) = 0 THEN p
    ELSE take_into_hand([p EXCEPT !.deck = Front(@)], p.deck[Len(p.deck)])

StartingHandEvent(seat, cycles, chosen) ==
    [event |-> "StartingHand", seat |-> seat, cycles |-> cycles, chosen |-> chosen]
RandomGameEvent(ev) == [event |-> "Random", random |-> ev]

\* starting_hand_loop that puts a rejected pair back as it was popped, the
\* last card first
RECURSIVE starting_hand_loop_reversing(_, _, _, _)
starting_hand_loop_reversing(p, events, cycles, safety) ==
    IF safety = 0
    THEN [p |-> p, events |-> events,
          ret |-> "unable to produce a valid starting hand containing a meme"]
    ELSE IF Len(p.deck) < 2
    THEN [p |-> p, events |-> events, ret |-> "deck too small for starting hand"]
    ELSE
    LET n == Len(p.deck)
        pulled == <<p.deck[n - 1], p.deck[n]>>
        rest == SubSeq(p.deck, 1, n - 2)
        ids == <<pulled[1].instance_id, pulled[2].instance_id>>
    IN IF \E i \in 1..2 : is_meme(pulled[i])
       THEN [p |-> take_into_hand(take_into_hand([p EXCEPT !.deck = rest],
                                                 pulled[1]), pulled[2]),
             events |-> Append(events, StartingHandEvent(p.seat, cycles, ids)),
             ret |-> "ok"]
       ELSE starting_hand_loop_reversing(
                [p EXCEPT !.deck = <<pulled[2], pulled[1]>> \o rest], events,
                Append(cycles, ids), safety - 1)

\* PlayerState::draw_starting_hand with count = 2, the `while safety > 0`
\* loop: [p, events, ret]
RECURSIVE starting_hand_loop(_, _, _, _)
starting_hand_loop(p, events, cycles, safety) ==
    IF safety = 0
    THEN [p |-> p, events |-> events,
          ret |-> "unable to produce a valid starting hand containing a meme"]
    ELSE IF Len(p.deck) < 2
    THEN [p |-> p, events |-> events, ret |-> "deck too small for starting hand"]
    ELSE
    LET n == Len(p.deck)
        \* two pops, then reverse: the pair in deck order
        pulled == <<p.deck[n - 1], p.deck[n]>>
        rest == SubSeq(p.deck, 1, n - 2)
        has_meme == \E i \in 1..2 : is_meme(pulled[i])
        ids == <<pulled[1].instance_id, pulled[2].instance_id>>
    IN IF has_meme
       THEN [p |-> take_into_hand(take_into_hand([p EXCEPT !.deck = rest],
                                                 pulled[1]), pulled[2]),
             events |-> Append(events, StartingHandEvent(p.seat, cycles, ids)),
             ret |-> "ok"]
       ELSE \* pulled.into_iter().rev() each inserted at index 0
            starting_hand_loop([p EXCEPT !.deck = pulled \o rest], events,
                               Append(cycles, ids), safety - 1)

RECURSIVE draw_n(_, _)
draw_n(p, count) == IF count = 0 THEN p ELSE draw_n(draw_card(p), count - 1)

draw_starting_hand(p, count, events) ==
    IF count = 0 THEN [p |-> p, events |-> events, ret |-> "ok"]
    ELSE IF count = 2 THEN starting_hand_loop(p, events, <<>>, Len(p.deck) + 2)
    ELSE [p |-> draw_n(p, count), events |-> events, ret |-> "ok"]

\* reset_for_new_turn that refills the pool without deducting the tax
reset_for_new_turn_untaxed(p) ==
    LET max_mana == IF p.max_mana < MANA_CAP THEN p.max_mana + 1 ELSE p.max_mana
    IN [p EXCEPT !.max_mana = max_mana,
                 !.mana = max_mana,
                 !.mana_tax_next = 0,
                 !.pinned_slots = <<>>,
                 !.feed_locked = FALSE]

\* PlayerState::reset_for_new_turn; `as u8` truncates the tax
reset_for_new_turn(p) ==
    LET max_mana == IF p.max_mana < MANA_CAP THEN p.max_mana + 1 ELSE p.max_mana
        penalty == Max(p.mana_tax_next, 0) % (U8_MAX + 1)
    IN [p EXCEPT !.max_mana = max_mana,
                 !.mana = saturating_sub(max_mana, penalty),
                 !.mana_tax_next = 0,
                 !.pinned_slots = <<>>,
                 !.feed_locked = FALSE]

---------------------------------------------------------------------------
(* game.rs: build_game and its helpers *)

\* validate_deck_composition: [ret, memes, exploits]
validate_deck_composition(ids) ==
    IF \E i \in 1..Len(ids) : find_definition(ids[i]) = <<>>
    THEN [ret |-> "card not found", memes |-> 0, exploits |-> 0]
    ELSE [ret |-> "ok",
          memes |-> Cardinality({i \in 1..Len(ids) :
                                   find_definition(ids[i])[1].kind = "Meme"}),
          exploits |-> Cardinality({i \in 1..Len(ids) :
                                      find_definition(ids[i])[1].kind = "Exploit"})]

\* instantiate_deck: instance numbers next_instance, next_instance + 1, ...
instantiate_deck(ids, owner, next_instance) ==
    [i \in 1..Len(ids) |->
        instantiate_card(next_instance + i - 1, find_definition(ids[i])[1], owner)]

\* deck_valid that looks at the size of the deck alone
deck_valid_by_size(deck, v) == Len(deck) = MAX_DECK_SIZE

deck_valid(deck, v) ==
    Len(deck) = MAX_DECK_SIZE /\ v.memes = MEME_LIMIT /\ v.exploits = EXPLOIT_LIMIT

\* build_game: [ret, g]; g is meaningful when ret = "ok"
build_game(our, next_instance, seed, host_deck, opponent_deck, opponent_id) ==
    Let(validate_deck_composition(host_deck), LAMBDA hv :
    Let(validate_deck_composition(opponent_deck), LAMBDA ov :
    IF hv.ret # "ok" \/ ov.ret # "ok" THEN [ret |-> "card not found", g |-> <<>>]
    ELSE
    Let(deck_valid(host_deck, hv), LAMBDA host_valid :
    Let(deck_valid(opponent_deck, ov), LAMBDA opponent_valid :
    Let(shuffle(FairRandomState_new(seed), our,
                instantiate_deck(host_deck, "Host", next_instance),
                0, KindShuffleDeck("Host")), LAMBDA hs :
    Let(shuffle(hs.rng, our,
                instantiate_deck(opponent_deck, "Opponent",
                                 next_instance + Len(host_deck)),
                0, KindShuffleDeck("Opponent")), LAMBDA os :
    Let(PlayerState_new("Host", our, hs.items), LAMBDA host0 :
    Let(PlayerState_new("Opponent", opponent_id, os.items), LAMBDA opp0 :
    Let([i \in 1..Len(os.rng.history) |-> RandomGameEvent(os.rng.history[i])],
        LAMBDA events0 :
    Let(IF host_valid THEN draw_starting_hand(host0, STARTING_HAND, events0)
        ELSE [p |-> host0, events |-> events0, ret |-> "ok"], LAMBDA hd :
    IF hd.ret # "ok" THEN [ret |-> hd.ret, g |-> <<>>]
    ELSE
    Let(IF opponent_valid THEN draw_starting_hand(opp0, STARTING_HAND, hd.events)
        ELSE [p |-> opp0, events |-> hd.events, ret |-> "ok"], LAMBDA od :
    IF od.ret # "ok" THEN [ret |-> od.ret, g |-> <<>>]
    ELSE [ret |-> "ok",
          g |-> [feed |-> <<>>,
                 players |-> [s \in Seats |-> IF s = "Host" THEN hd.p ELSE od.p],
                 turn |-> 0,
                 initiative |-> "Host",
                 phase |-> IF host_valid /\ opponent_valid THEN "Commit"
                           ELSE "GameOver",
                 stakes |-> 1,
                 pending_stakes |-> <<>>,
                 winner |-> IF host_valid = opponent_valid THEN <<>>
                            ELSE IF host_valid THEN <<"Host">>
                            ELSE <<"Opponent">>,
                 game_seed |-> seed,
                 next_instance |-> next_instance + Len(host_deck)
                                   + Len(opponent_deck),
                 rng |-> os.rng,
                 events |-> od.events]])))))))))))

---------------------------------------------------------------------------
(* game.rs: free helper functions *)

\* split_players_mut(players, seat): (the seat's player, the other player)
Player(g, seat) == g.players[seat]
Opp(g, seat) == g.players[other(seat)]
SetPlayer(g, seat, p) == [g EXCEPT !.players[seat] = p]

\* card_cost: [ret, cost]
card_cost(cards, id, discount) ==
    LET i == PositionOf(cards, LAMBDA c : c.instance_id = id)
    IN IF i = 0 THEN [ret |-> "card not found", cost |-> 0]
       ELSE [ret |-> "ok", cost |-> Max(cards[i].cost - discount, 0)]

apply_damage(card, amount, ignore_protect) ==
    IF card.protected_until_end /\ ~ignore_protect THEN card
    ELSE LET dmg == IF card.shield > 0 /\ ~ignore_protect
                    THEN Max(amount - card.shield, 0)
                    ELSE amount
         IN IF HasKw(card, "Fragile") /\ dmg > 0
            THEN [card EXCEPT !.current_virality = 0]
            ELSE [card EXCEPT !.current_virality = @ - dmg]

has_taunt(cards) == \E i \in 1..Len(cards) : HasKw(cards[i], "Taunt")

\* aura_amount over a kitchen: the first BuffOtherKitchen amount found
aura_amount(abilities) ==
    LET i == PositionOf(abilities, LAMBDA a : a.effect.e = "BuffOtherKitchen")
    IN IF i = 0 THEN <<>> ELSE <<abilities[i].effect.n>>

\* find_card_mut_for_owner / find_enemy_card_mut_for_owner followed by the
\* mutation F of the card found: the kitchen of `kitchen_seat` is searched
\* first, then the feed for a card of that id owned by `kitchen_seat`
modify_kitchen_or_feed(g, kitchen_seat, id, F(_)) ==
    LET kitchen == g.players[kitchen_seat].kitchen
        k == PositionOf(kitchen, LAMBDA c : c.instance_id = id)
        f == PositionOf(g.feed, LAMBDA c : c.instance_id = id /\ c.owner = kitchen_seat)
    IN IF k # 0 THEN [g EXCEPT !.players[kitchen_seat].kitchen[k] = F(@)]
       ELSE IF f # 0 THEN [g EXCEPT !.feed[f] = F(@)]
       ELSE g

---------------------------------------------------------------------------
(* game.rs: GameState, private helpers *)

to_abyss(g, seat, card) ==
    [g EXCEPT !.players[seat].abyss =
                  Append(@, [card EXCEPT !.location = Loc("Abyss")])]

reindex_feed(g) ==
    [g EXCEPT !.feed = [i \in 1..Len(g.feed) |->
                           [g.feed[i] EXCEPT !.location = LocFeed(i - 1)]]]

\* feed_lock_active that looks at the Host's flag only
feed_lock_active_host_only(g) == g.players["Host"].feed_locked

feed_lock_active(g) == \E s \in Seats : g.players[s].feed_locked

\* record_random: [g, result].  The event pushed is the last of the
\* history, whether or not this call appended it.
record_random(g, our, bound, kind) ==
    Let(generate(g.rng, our, bound, g.turn, kind), LAMBDA r :
    Let(r.rng.history, LAMBDA h :
    [g |-> [g EXCEPT !.rng = r.rng,
                     !.events = IF Len(h) > 0
                                THEN Append(@, RandomGameEvent(h[Len(h)]))
                                ELSE @],
     result |-> r.result]))

\* fair_shuffle_feed, the loop from the 0-based index i down to 1
RECURSIVE fair_shuffle_from(_, _, _)
fair_shuffle_from(g, our, i) ==
    IF i < 1 THEN g
    ELSE Let(record_random(g, our, i + 1, KindShuffleFeed), LAMBDA r :
         fair_shuffle_from([r.g EXCEPT !.feed = Swap(@, i + 1, r.result + 1)],
                           our, i - 1))

fair_shuffle_feed(g, our) ==
    IF Len(g.feed) <= 1 THEN g
    ELSE reindex_feed(fair_shuffle_from(g, our, Len(g.feed) - 1))

\* `slot` is the 0-based slot of the code
shift_feed_up(g, slot) ==
    IF slot = 0 \/ slot >= Len(g.feed) THEN g
    ELSE LET pinned ==
                 \/ \E s \in Seats : slot \in Range(g.players[s].pinned_slots)
                 \/ HasKw(g.feed[slot + 1], "Anchor")
         IN IF pinned THEN g
            ELSE reindex_feed([g EXCEPT !.feed = Swap(@, slot, slot + 1)])

resurrect_last(g, seat) ==
    LET p == Player(g, seat)
    IN IF Len(p.abyss) = 0 THEN g
       ELSE SetPlayer(g, seat,
                [p EXCEPT !.abyss = Front(@),
                          !.hand = Append(@, [p.abyss[Len(p.abyss)]
                                                 EXCEPT !.location = Loc("Hand")])])

apply_damage_targeted(g, seat, target, amount) ==
    LET D(c) == apply_damage(c, amount, FALSE)
        enemy == other(seat)
    IN CASE target.t = "Card" ->
              modify_kitchen_or_feed(g, enemy, target.id, D)
         [] target.t = "FeedSlot" ->
              IF target.slot < Len(g.feed)
              THEN [g EXCEPT !.feed[target.slot + 1] = D(@)]
              ELSE g
         [] OTHER ->   \* AnyKitchen | EnemyKitchen
              IF Len(g.players[enemy].kitchen) > 0
              THEN [g EXCEPT !.players[enemy].kitchen[1] = D(@)]
              ELSE g

\* ExploitEffect::WipeBottom, `count` pops
RECURSIVE wipe_bottom(_, _)
wipe_bottom(g, count) ==
    IF count = 0 \/ Len(g.feed) = 0 THEN g
    ELSE LET card == g.feed[Len(g.feed)]
         IN wipe_bottom(to_abyss([g EXCEPT !.feed = Front(@)], card.owner, card),
                        count - 1)

\* `count` instances of `variant` created at `location` for `seat`:
\* [g, cards]; a variant missing from the catalog creates nothing
RECURSIVE spawn_instances(_, _, _, _, _)
spawn_instances(g, variant, count, seat, location) ==
    Let(find_definition(variant), LAMBDA def :
    IF count = 0 \/ def = <<>> THEN [g |-> g, cards |-> <<>>]
    ELSE Let(new_instance_from_def(g, def[1], seat, location), LAMBDA one :
         Let(spawn_instances(one.g, variant, count - 1, seat, location),
             LAMBDA more :
         [g |-> more.g, cards |-> <<one.card>> \o more.cards])))

\* ExecuteOn that spares a card whose protected_until_end flag is set
ExecuteOn_unless_protected(g, seat, id) ==
    LET enemy == other(seat)
        k == PositionOf(g.players[enemy].kitchen, LAMBDA c : c.instance_id = id)
        f == PositionOf(g.feed, LAMBDA c : c.instance_id = id /\ c.owner = enemy)
    IN IF k # 0 /\ ~g.players[enemy].kitchen[k].protected_until_end
       THEN to_abyss([g EXCEPT !.players[enemy].kitchen = RemoveAt(@, k)], enemy,
                     g.players[enemy].kitchen[k])
       ELSE IF k = 0 /\ f # 0 /\ ~g.feed[f].protected_until_end
       THEN to_abyss([g EXCEPT !.feed = RemoveAt(@, f)], g.feed[f].owner, g.feed[f])
       ELSE g

ExecuteOn(g, seat, id) ==
    LET enemy == other(seat)
        k == PositionOf(g.players[enemy].kitchen, LAMBDA c : c.instance_id = id)
        f == PositionOf(g.feed, LAMBDA c : c.instance_id = id /\ c.owner = enemy)
    IN IF k # 0
       THEN to_abyss([g EXCEPT !.players[enemy].kitchen = RemoveAt(@, k)], enemy,
                     g.players[enemy].kitchen[k])
       ELSE IF f # 0
       THEN to_abyss([g EXCEPT !.feed = RemoveAt(@, f)], g.feed[f].owner, g.feed[f])
       ELSE g

\* apply_exploit_effect: every arm returns Ok, so the result is the state.
\* `target` is the Option<Target> of the action.
apply_exploit_effect(g, our, effect, seat, target) ==
    LET enemy == other(seat)
        is_card == target # <<>> /\ target[1].t = "Card"
        is_slot == target # <<>> /\ target[1].t = "FeedSlot"
        slot_or(default) == IF is_slot THEN target[1].slot ELSE default
    IN CASE effect.e = "Damage" ->
              apply_damage_targeted(g, seat,
                  IF target = <<>> THEN effect.target ELSE target[1], effect.n)
         [] effect.e = "AreaDamageKitchen" ->
              [g EXCEPT !.players[enemy].kitchen =
                  [i \in 1..Len(@) |-> apply_damage(@[i], effect.n, FALSE)]]
         [] effect.e = "Boost" ->
              IF is_card
              THEN modify_kitchen_or_feed(g, seat, target[1].id,
                       LAMBDA c : [c EXCEPT !.current_virality = @ + effect.n])
              ELSE g
         [] effect.e = "Debuff" ->
              IF is_card
              THEN modify_kitchen_or_feed(g, enemy, target[1].id,
                       LAMBDA c : [c EXCEPT !.current_virality = @ - effect.n])
              ELSE g
         [] effect.e = "ResurrectLast" -> resurrect_last(g, seat)
         [] effect.e = "Protect" ->
              IF is_card
              THEN modify_kitchen_or_feed(g, seat, target[1].id,
                       LAMBDA c : [c EXCEPT !.protected_until_end = TRUE])
              ELSE g
         [] effect.e = "Double" ->
              IF is_card
              THEN modify_kitchen_or_feed(g, seat, target[1].id,
                       LAMBDA c : [c EXCEPT !.current_virality = @ * 2])
              ELSE g
         [] effect.e = "Execute" ->
              IF is_card THEN ExecuteOn(g, seat, target[1].id) ELSE g
         [] effect.e = "PinSlot" ->
              [g EXCEPT !.players[enemy].pinned_slots = Append(@, slot_or(effect.n))]
         [] effect.e = "MoveUp" -> shift_feed_up(g, slot_or(effect.n))
         [] effect.e = "LockFeed" -> [g EXCEPT !.players[enemy].feed_locked = TRUE]
         [] effect.e = "NukeBelow" ->
              IF is_slot /\ target[1].slot < Len(g.feed)
                 /\ g.feed[target[1].slot + 1].current_virality < effect.n
              THEN LET removed == g.feed[target[1].slot + 1]
                   IN to_abyss([g EXCEPT !.feed = RemoveAt(@, target[1].slot + 1)],
                               removed.owner, removed)
              ELSE g
         [] effect.e = "Tax" ->
              [g EXCEPT !.players[enemy].mana_tax_next = @ + effect.n]
         [] effect.e = "ShuffleFeed" -> fair_shuffle_feed(g, our)
         [] effect.e = "DiscountNext" -> [g EXCEPT !.players[seat].cost_discount = 1]
         [] effect.e = "ManaBurn" ->
              [g EXCEPT !.players[enemy].mana = saturating_sub(@, effect.n)]
         [] effect.e = "WipeBottom" -> wipe_bottom(g, effect.n)
         [] effect.e = "SpawnShitposts" ->
              Let(spawn_instances(g, "d06", effect.n, seat, Loc("Hand")),
                  LAMBDA sp : [sp.g EXCEPT !.players[seat].hand = @ \o sp.cards])
         [] effect.e = "Silence" ->
              IF is_card
              THEN modify_kitchen_or_feed(g, enemy, target[1].id,
                       LAMBDA c : [c EXCEPT !.abilities = <<>>,
                                            !.keywords = {w \in @ : w.k = "Shielded"}])
              ELSE g
         [] OTHER -> g

\* cast_exploit: the card leaves the hand and the discount is cleared before
\* the class of the card is looked at
cast_exploit(g, our, seat, action) ==
    LET p == Player(g, seat)
        i == PositionOf(p.hand, LAMBDA c : c.instance_id = action.card_id)
    IN IF i = 0 THEN Err(g, "exploit not found in hand")
       ELSE
       LET card == p.hand[i]
           g1 == SetPlayer(g, seat, [p EXCEPT !.hand = RemoveAt(@, i),
                                              !.cost_discount = 0])
       IN IF card.class.kind # "Exploit" THEN Err(g1, "card is not an exploit")
          ELSE Ok(to_abyss(apply_exploit_effect(g1, our, card.class.effect, seat,
                                                action.target),
                           seat, card))

---------------------------------------------------------------------------
(* game.rs: validation and application of one seat's plan *)

\* the enemy Card(id) arm shared by Damage and Debuff | Execute | Silence
validate_enemy_card(g, seat, id) ==
    LET enemy == other(seat)
        kitchen == g.players[enemy].kitchen
        k == PositionOf(kitchen, LAMBDA c : c.instance_id = id)
        in_feed == \E i \in 1..Len(g.feed) :
                       g.feed[i].instance_id = id /\ g.feed[i].owner = enemy
    IN IF k # 0
       THEN IF has_taunt(kitchen) /\ ~HasKw(kitchen[k], "Taunt")
            THEN "must target taunt card first"
            ELSE IF HasKw(kitchen[k], "Stealth") THEN "target is stealth"
            ELSE "ok"
       ELSE IF in_feed THEN "ok"
       ELSE "target not found in enemy kitchen or feed"

\* validate_exploit_target_seat: "ok" or the error; it reads the state only
validate_exploit_target_seat(g, seat, action) ==
    LET hand == Player(g, seat).hand
        i == PositionOf(hand, LAMBDA c : c.instance_id = action.card_id)
        target == action.target
        none == target = <<>>
        is(t) == target # <<>> /\ target[1].t = t
    IN IF i = 0 THEN "exploit not in hand"
       ELSE IF hand[i].class.kind # "Exploit" THEN "card is not an exploit"
       ELSE
       LET e == hand[i].class.effect.e
       IN CASE e = "Damage" /\ is("Card") -> validate_enemy_card(g, seat, target[1].id)
            [] e = "Damage" /\ is("EnemyKitchen") -> "ok"
            [] e = "Damage" /\ is("FeedSlot") ->
                 IF target[1].slot >= Len(g.feed) THEN "invalid feed slot" ELSE "ok"
            [] e = "Damage" /\ none -> "damage exploit requires a target"
            [] e = "AreaDamageKitchen" -> "ok"
            [] e \in {"Boost", "Protect", "Double"} /\ is("Card") ->
                 IF \/ \E k \in 1..Len(Player(g, seat).kitchen) :
                          Player(g, seat).kitchen[k].instance_id = target[1].id
                    \/ \E k \in 1..Len(g.feed) :
                          /\ g.feed[k].instance_id = target[1].id
                          /\ g.feed[k].owner = seat
                 THEN "ok"
                 ELSE "target not found in your kitchen or feed"
            [] e \in {"Boost", "Protect", "Double"} /\ none ->
                 "buff exploit requires a target"
            [] e \in {"Debuff", "Execute", "Silence"} /\ is("Card") ->
                 validate_enemy_card(g, seat, target[1].id)
            [] e \in {"Debuff", "Execute", "Silence"} /\ none ->
                 "debuff/removal exploit requires a target"
            [] e \in {"PinSlot", "MoveUp", "NukeBelow"} /\ is("FeedSlot") ->
                 IF target[1].slot >= Len(g.feed) THEN "invalid feed slot" ELSE "ok"
            [] e \in {"PinSlot", "MoveUp", "NukeBelow"} /\ none ->
                 "feed manipulation exploit requires a target slot"
            [] OTHER -> "ok"

\* the OnPlayKitchen Spawn abilities of a card played to the kitchen, folded
\* left to right from ability i: [g, kitchen, hand]
RECURSIVE on_play_spawns(_, _, _, _)
on_play_spawns(g, seat, abilities, i) ==
    IF i > Len(abilities) THEN [g |-> g, kitchen |-> <<>>, hand |-> <<>>]
    ELSE
    LET a == abilities[i]
    IN IF a.trigger = "OnPlayKitchen" /\ a.effect.e = "Spawn"
       THEN Let(spawn_instances(g, a.effect.variant, a.effect.n, seat,
                                Loc(a.effect.loc)), LAMBDA sp :
            Let(on_play_spawns(sp.g, seat, abilities, i + 1), LAMBDA rest :
            [g |-> rest.g,
             kitchen |-> (IF a.effect.loc = "Kitchen" THEN sp.cards ELSE <<>>)
                         \o rest.kitchen,
             hand |-> (IF a.effect.loc = "Hand" THEN sp.cards ELSE <<>>)
                      \o rest.hand]))
       ELSE on_play_spawns(g, seat, abilities, i + 1)

\* play_to_kitchen: the card is removed from the hand before its class is
\* checked
play_to_kitchen(g, seat, id) ==
    LET p == Player(g, seat)
        i == PositionOf(p.hand, LAMBDA c : c.instance_id = id)
    IN IF i = 0 THEN Err(g, "card not in hand")
       ELSE
       LET g1 == SetPlayer(g, seat, [p EXCEPT !.hand = RemoveAt(@, i)])
           card == [p.hand[i] EXCEPT !.location = Loc("Kitchen"),
                                     !.played_turn = g.turn]
       IN IF ~is_meme(p.hand[i]) THEN Err(g1, "only memes can be played to kitchen")
          ELSE Let(on_play_spawns(g1, seat, card.abilities, 1), LAMBDA sp :
               Ok([sp.g EXCEPT
                     !.players[seat].kitchen = Append(@, card) \o sp.kitchen,
                     !.players[seat].hand = @ \o sp.hand]))

\* the `?` chain of apply_turn_for_seat over the cost of ids[i..]:
\* [ret, total]
RECURSIVE sum_costs(_, _, _, _)
sum_costs(hand, ids, discount, i) ==
    IF i > Len(ids) THEN [ret |-> "ok", total |-> 0]
    ELSE LET c == card_cost(hand, ids[i], discount)
         IN IF c.ret # "ok" THEN [ret |-> c.ret, total |-> 0]
            ELSE LET rest == sum_costs(hand, ids, discount, i + 1)
                 IN [ret |-> rest.ret, total |-> c.cost + rest.total]

RECURSIVE play_all(_, _, _, _)
play_all(g, seat, ids, i) ==
    IF i > Len(ids) THEN Ok(g)
    ELSE Try(play_to_kitchen(g, seat, ids[i]),
             LAMBDA g1 : play_all(g1, seat, ids, i + 1))

RECURSIVE validate_all(_, _, _, _)
validate_all(g, seat, exploits, i) ==
    IF i > Len(exploits) THEN "ok"
    ELSE Let(validate_exploit_target_seat(g, seat, exploits[i]), LAMBDA v :
         IF v # "ok" THEN v ELSE validate_all(g, seat, exploits, i + 1))

\* the "insufficient mana" message names the player; the amounts it also
\* prints are left out
insufficient_mana(seat) ==
    IF seat = "Host" THEN "Host insufficient mana"
    ELSE "Opponent insufficient mana"

\* apply_turn_for_seat with the mana debited before it is compared
apply_turn_for_seat_debit_first(g, seat, plan) ==
    LET p == Player(g, seat)
        ids == plan.plays_to_kitchen
               \o [i \in 1..Len(plan.exploits) |-> plan.exploits[i].card_id]
    IN Let(sum_costs(p.hand, ids, p.cost_discount, 1), LAMBDA spent :
       Let([g EXCEPT !.players[seat].mana =
                         saturating_sub(@, spent.total % (U8_MAX + 1))], LAMBDA g1 :
       IF Len(plan.plays_to_kitchen) > 1
       THEN Err(g, "only one meme can be played from hand to kitchen per turn")
       ELSE IF spent.ret # "ok" THEN Err(g, spent.ret)
       ELSE IF spent.total > p.mana THEN Err(g1, insufficient_mana(seat))
       ELSE Try(play_all(g1, seat, plan.plays_to_kitchen, 1), LAMBDA g2 :
            Let(validate_all(g2, seat, plan.exploits, 1), LAMBDA v :
            IF v # "ok" THEN Err(g2, v) ELSE Ok(g2)))))

apply_turn_for_seat(g, seat, plan) ==
    LET p == Player(g, seat)
        ids == plan.plays_to_kitchen
               \o [i \in 1..Len(plan.exploits) |-> plan.exploits[i].card_id]
    IN Let(sum_costs(p.hand, ids, p.cost_discount, 1), LAMBDA spent :
       IF Len(plan.plays_to_kitchen) > 1
       THEN Err(g, "only one meme can be played from hand to kitchen per turn")
       ELSE IF spent.ret # "ok" THEN Err(g, spent.ret)
       ELSE IF spent.total > p.mana THEN Err(g, insufficient_mana(seat))
       ELSE Try(play_all([g EXCEPT !.players[seat].mana =
                                       saturating_sub(@, spent.total % (U8_MAX + 1))],
                         seat, plan.plays_to_kitchen, 1), LAMBDA g2 :
            Let(validate_all(g2, seat, plan.exploits, 1), LAMBDA v :
            IF v # "ok" THEN Err(g2, v) ELSE Ok(g2))))

\* resolve_exploits: the exploits of `order`[k..], each seat's in plan order
RECURSIVE cast_all(_, _, _, _, _)
cast_all(g, our, seat, exploits, i) ==
    IF i > Len(exploits) THEN Ok(g)
    ELSE Try(cast_exploit(g, our, seat, exploits[i]),
             LAMBDA g1 : cast_all(g1, our, seat, exploits, i + 1))

\* resolve_exploits that casts the Host's exploits first whatever the
\* initiative
resolve_exploits_host_first(g, our, initiative, host_plan, opponent_plan) ==
    Try(cast_all(g, our, "Host", host_plan.exploits, 1),
        LAMBDA g1 : cast_all(g1, our, "Opponent", opponent_plan.exploits, 1))

resolve_exploits(g, our, initiative, host_plan, opponent_plan) ==
    LET plan_of(seat) == IF seat = "Host" THEN host_plan ELSE opponent_plan
    IN Try(cast_all(g, our, initiative, plan_of(initiative).exploits, 1),
           LAMBDA g1 : cast_all(g1, our, other(initiative),
                                plan_of(other(initiative)).exploits, 1))

---------------------------------------------------------------------------
(* game.rs: posting to the feed *)

\* take_from_kitchen that refuses frozen cards only
take_from_kitchen_same_turn(g, seat, id) ==
    LET p == Player(g, seat)
        i == PositionOf(p.kitchen, LAMBDA c : c.instance_id = id)
    IN IF i = 0 THEN [g |-> g, card |-> <<>>]
       ELSE
       LET card == p.kitchen[i]
           without == RemoveAt(p.kitchen, i)
           refused == card.frozen_turns > 0 /\ ~HasKw(card, "Haste")
       IN IF refused
          THEN [g |-> [g EXCEPT !.players[seat].kitchen = Append(without, card)],
                card |-> <<>>]
          ELSE [g |-> [g EXCEPT !.players[seat].kitchen = without],
                card |-> <<[card EXCEPT !.location = LocFeed(0)]>>]

\* take_from_kitchen for one post: [g, card]; a refused card is pushed back
\* at the end of the kitchen
take_from_kitchen(g, seat, id) ==
    LET p == Player(g, seat)
        i == PositionOf(p.kitchen, LAMBDA c : c.instance_id = id)
    IN IF i = 0 THEN [g |-> g, card |-> <<>>]
       ELSE
       LET card == p.kitchen[i]
           without == RemoveAt(p.kitchen, i)
           refused == \/ card.frozen_turns > 0 /\ ~HasKw(card, "Haste")
                      \/ card.played_turn = g.turn /\ ~HasKw(card, "Haste")
       IN IF refused
          THEN [g |-> [g EXCEPT !.players[seat].kitchen = Append(without, card)],
                card |-> <<>>]
          ELSE [g |-> [g EXCEPT !.players[seat].kitchen = without],
                card |-> <<[card EXCEPT !.location = LocFeed(0)]>>]

\* the two `for post in ..._posts` loops: [g, entries]
RECURSIVE take_all(_, _, _, _)
take_all(g, seat, posts, i) ==
    IF i > Len(posts) THEN [g |-> g, entries |-> <<>>]
    ELSE Let(take_from_kitchen(g, seat, posts[i].card_id), LAMBDA t :
         Let(take_all(t.g, seat, posts, i + 1), LAMBDA rest :
         [g |-> rest.g,
          entries |-> (IF t.card = <<>> THEN <<>>
                       ELSE <<[seat |-> seat, card |-> t.card[1]]>>)
                      \o rest.entries]))

\* comparator that leaves entries of equal virality as they stand
entry_less_by_virality(a, b, initiative) ==
    a.card.current_virality > b.card.current_virality

\* the comparator of entries.sort_by returns Less
entry_less(a, b, initiative) ==
    \/ a.card.current_virality > b.card.current_virality
    \/ /\ a.card.current_virality = b.card.current_virality
       /\ a.seat = initiative

\* slice::sort_by on a short slice is an insertion sort: each element in
\* turn moves left past every neighbour it is less than
RECURSIVE insert_tail(_, _, _, _)
insert_tail(sorted, x, k, initiative) ==
    IF k >= 1 /\ entry_less(x, sorted[k], initiative)
    THEN insert_tail(sorted, x, k - 1, initiative)
    ELSE InsertAt(sorted, k + 1, x)

RECURSIVE sort_entries(_, _, _, _)
sort_entries(sorted, entries, i, initiative) ==
    IF i > Len(entries) THEN sorted
    ELSE sort_entries(insert_tail(sorted, entries[i], Len(sorted), initiative),
                      entries, i + 1, initiative)

\* the first loop of apply_on_post_effects over the posted card's abilities
OnPostAcc(card) ==
    [card |-> card, randomize |-> <<>>, spawn |-> <<>>, gain_mana |-> 0,
     ping_top |-> <<>>, swap |-> FALSE, knockback |-> <<>>]

RECURSIVE on_post_first(_, _, _, _)
on_post_first(acc, abilities, i, has_after) ==
    IF i > Len(abilities) THEN acc
    ELSE
    LET a == abilities[i]
        e == a.effect
        next ==
          IF a.trigger # "OnPost" THEN acc
          ELSE CASE e.e = "BuffSelf" ->
                      [acc EXCEPT !.card.current_virality = @ + e.n]
                 [] e.e = "SelfDestructNext" ->
                      [acc EXCEPT !.card.volatile =
                                      <<acc.card.current_virality + 1000>>]
                 [] e.e = "RandomizeVirality" ->
                      [acc EXCEPT !.randomize =
                          Append(@, [id |-> acc.card.instance_id, min |-> e.n,
                                     max |-> e.max])]
                 [] e.e = "Spawn" -> [acc EXCEPT !.spawn = Append(@, e)]
                 [] e.e = "GainMana" ->
                      [acc EXCEPT !.gain_mana = saturating_add(@, e.n)]
                 [] e.e = "PingOpponentTop" -> [acc EXCEPT !.ping_top = <<e.n>>]
                 [] e.e = "SwapBelow" ->
                      IF has_after THEN [acc EXCEPT !.swap = TRUE] ELSE acc
                 [] e.e = "Knockback" ->
                      IF has_after THEN [acc EXCEPT !.knockback = <<e.n>>] ELSE acc
                 [] OTHER -> acc
    IN on_post_first(next, abilities, i + 1, has_after)

\* the second loop: DamageBelow and DrainBelow against feed[idx + 1]
RECURSIVE on_post_below(_, _, _, _)
on_post_below(feed, idx, abilities, i) ==
    IF i > Len(abilities) THEN feed
    ELSE
    LET a == abilities[i]
        e == a.effect
        below == idx + 1
        next ==
          IF a.trigger # "OnPost" \/ below > Len(feed) THEN feed
          ELSE CASE e.e = "DamageBelow" ->
                      [feed EXCEPT ![below] = apply_damage(@, e.n, FALSE)]
                 [] e.e = "DrainBelow" ->
                      LET drained == Min(e.n, feed[below].current_virality)
                      IN [feed EXCEPT ![below].current_virality = @ - drained,
                                      ![idx].current_virality = @ + drained]
                 [] OTHER -> feed
    IN on_post_below(next, idx, abilities, i + 1)

\* the positional part of apply_on_post_effects, for the card at the
\* 1-based index idx of the feed: [feed, acc]
on_post_positional(feed, idx) ==
    Let(on_post_first(OnPostAcc(feed[idx]), feed[idx].abilities, 1,
                      idx < Len(feed)), LAMBDA acc :
    Let([feed EXCEPT ![idx] = acc.card], LAMBDA f1 :
    Let(acc.swap /\ idx < Len(f1), LAMBDA swapped :
    Let(IF swapped THEN Swap(f1, idx, idx + 1) ELSE f1, LAMBDA f2 :
    Let(IF swapped THEN idx + 1 ELSE idx, LAMBDA idx2 :
    \* target_idx = idx + 1 and new_idx, both 0-based in the code
    Let(IF acc.knockback # <<>> /\ idx2 + 1 <= Len(f2)
        THEN Swap(f2, idx2 + 1, Min(idx2 + acc.knockback[1], Len(f2) - 1) + 1)
        ELSE f2, LAMBDA f3 :
    [feed |-> on_post_below(f3, idx2, f3[idx2].abilities, 1), acc |-> acc]))))))

RECURSIVE apply_randomize(_, _, _, _)
apply_randomize(g, our, pending, i) ==
    IF i > Len(pending) THEN g
    ELSE
    LET r == pending[i]
        bound == Max(r.max - r.min + 1, 1)
    IN Let(record_random(g, our, bound, KindRandomizeVirality(r.id)), LAMBDA roll :
       Let(PositionOf(roll.g.feed, LAMBDA c : c.instance_id = r.id), LAMBDA k :
       apply_randomize(
           IF k = 0 THEN roll.g
           ELSE [roll.g EXCEPT !.feed[k].current_virality = r.min + roll.result],
           our, pending, i + 1)))

RECURSIVE apply_spawn_tasks(_, _, _, _)
apply_spawn_tasks(g, seat, tasks, i) ==
    IF i > Len(tasks) THEN g
    ELSE
    LET t == tasks[i]
    IN Let(spawn_instances(g, t.variant, t.n, seat, Loc(t.loc)), LAMBDA sp :
       apply_spawn_tasks(
           IF t.loc = "Kitchen"
           THEN [sp.g EXCEPT !.players[seat].kitchen = @ \o sp.cards]
           ELSE [sp.g EXCEPT !.players[seat].hand = @ \o sp.cards],
           seat, tasks, i + 1))

\* the aura step that closes apply_on_post_effects
apply_aura(g, seat) ==
    LET kitchen == Player(g, seat).kitchen
    IN Let(PositionOf(kitchen, LAMBDA c : aura_amount(c.abilities) # <<>>), LAMBDA k :
       IF k = 0 THEN g
       ELSE [g EXCEPT !.players[seat].kitchen =
                [i \in 1..Len(@) |->
                    [@[i] EXCEPT !.cook_rate =
                        BASE_COOK + aura_amount(kitchen[k].abilities)[1]]]])

apply_on_post_effects(g, our, seat, id) ==
    Let(PositionOf(g.feed, LAMBDA c : c.instance_id = id), LAMBDA idx :
    Let(IF idx = 0 THEN [feed |-> g.feed, acc |-> OnPostAcc(<<>>)]
        ELSE on_post_positional(g.feed, idx), LAMBDA pos :
    Let(pos.acc, LAMBDA acc :
    Let([g EXCEPT !.feed = pos.feed,
                  !.players[seat].mana =
                      IF acc.gain_mana > 0 THEN saturating_add(@, acc.gain_mana)
                      ELSE @], LAMBDA g2 :
    Let(apply_spawn_tasks(apply_randomize(g2, our, acc.randomize, 1), seat,
                          acc.spawn, 1), LAMBDA g4 :
    apply_aura(IF acc.ping_top # <<>> /\ Len(g4.feed) > 0 /\ g4.feed[1].owner # seat
               THEN [g4 EXCEPT !.feed[1] = apply_damage(@, acc.ping_top[1], FALSE)]
               ELSE g4,
               seat))))))

\* first Gatekeeper keyword of a feed card: Option<max_cost>
gatekeeper_of(card) ==
    IF HasKw(card, "Gatekeeper")
    THEN <<(CHOOSE w \in card.keywords : w.k = "Gatekeeper").n>>
    ELSE <<>>

\* insert_index that looks at the Heavy keyword alone
insert_index_no_gatekeeper(feed, card) ==
    IF HasKw(card, "Heavy") THEN Len(feed) ELSE 0

\* 0-based index at which resolve_posts inserts `card` into `feed`
insert_index(feed, card) ==
    LET start == IF HasKw(card, "Heavy") THEN Len(feed) ELSE 0
        past == {idx + 1 : idx \in {i \in 0..(Len(feed) - 1) :
                    /\ gatekeeper_of(feed[i + 1]) # <<>>
                    /\ card.cost < gatekeeper_of(feed[i + 1])[1]}}
        target_index == IF past = {} THEN start
                        ELSE Max(start, CHOOSE m \in past : \A x \in past : x <= m)
    IN Min(target_index, Len(feed))

\* post_entry that never evicts
post_entry_unbounded(g, our, entry) ==
    reindex_feed(apply_on_post_effects(
        [g EXCEPT !.feed = InsertAt(@, insert_index(g.feed, entry.card) + 1,
                                    entry.card)],
        our, entry.seat, entry.card.instance_id))

\* one iteration of `for (seat, card) in entries`
post_entry(g, our, entry) ==
    Let(apply_on_post_effects(
            [g EXCEPT !.feed = InsertAt(@, insert_index(g.feed, entry.card) + 1,
                                        entry.card)],
            our, entry.seat, entry.card.instance_id), LAMBDA g2 :
    reindex_feed(IF Len(g2.feed) > FEED_SIZE
                 THEN LET removed == g2.feed[Len(g2.feed)]
                      IN to_abyss([g2 EXCEPT !.feed = Front(@)], removed.owner,
                                  removed)
                 ELSE g2))

\* `for (seat, card) in entries { ... }` and the Ok(()) that follows it:
\* each iteration works on the GameState the one before it has left
RECURSIVE post_all(_, _, _, _)
post_all(g, our, entries, i) ==
    IF i > Len(entries) THEN Ok(g)
    ELSE Try(Ok(post_entry(g, our, entries[i])), LAMBDA g2 :
             post_all(g2, our, entries, i + 1))

\* resolve_posts (it always returns Ok)
resolve_posts(g, our, host_posts, opponent_posts) ==
    IF feed_lock_active(g) THEN g
    ELSE
    Let(take_all(g, "Host", host_posts, 1), LAMBDA h :
    Let(take_all(h.g, "Opponent", opponent_posts, 1), LAMBDA o :
    post_all(o.g, our,
             sort_entries(<<>>, h.entries \o o.entries, 1, g.initiative), 1).g))

---------------------------------------------------------------------------
(* game.rs: end of turn *)

\* points of the feed cards of `seat`; index is the 0-based feed position
RECURSIVE feed_points(_, _, _)
feed_points(feed, seat, i) ==
    IF i > Len(feed) THEN 0
    ELSE (IF feed[i].owner = seat
          THEN (BASE_FEED_YIELD + (i - 1) * FEED_YIELD_STEP) * feed[i].yield_rate
          ELSE 0) + feed_points(feed, seat, i + 1)

\* apply_feed_yield that multiplies the points by the stake multiplier
apply_feed_yield_staked(g) ==
    [g EXCEPT !.players = [s \in Seats |->
        [g.players[s] EXCEPT !.score = @ + feed_points(g.feed, s, 1) * g.stakes]]]

apply_feed_yield(g) ==
    [g EXCEPT !.players = [s \in Seats |->
        [g.players[s] EXCEPT !.score = @ + feed_points(g.feed, s, 1)]]]

cook_kitchen_card(card) ==
    LET c1 == IF card.frozen_turns > 0
              THEN [card EXCEPT !.frozen_turns = @ - 1]
              ELSE [card EXCEPT !.current_virality = @ + card.cook_rate]
        c2 == IF HasKw(c1, "HealKitchen")
              THEN [c1 EXCEPT !.current_virality = c1.base_virality]
              ELSE c1
        c3 == IF c2.volatile # <<>>
              THEN [c2 EXCEPT !.current_virality = @ - c2.volatile[1]]
              ELSE c2
    IN [c3 EXCEPT !.protected_until_end = FALSE]

decay_feed_card(card) ==
    IF card.volatile # <<>>
    THEN [card EXCEPT !.current_virality = @ - card.volatile[1]]
    ELSE card

apply_cook_and_decay(g) ==
    [g EXCEPT !.players = [s \in Seats |->
                  [g.players[s] EXCEPT !.kitchen =
                      [i \in 1..Len(@) |-> cook_kitchen_card(@[i])]]],
              !.feed = [i \in 1..Len(@) |-> decay_feed_card(@[i])]]

\* the kitchen loop of cleanup_board for one player
cleanup_kitchen(p) ==
    LET dead == SelectSeq(p.kitchen, LAMBDA c : c.current_virality <= 0)
        alive == SelectSeq(p.kitchen, LAMBDA c : c.current_virality > 0)
    IN [p EXCEPT !.abyss = @ \o [i \in 1..Len(dead) |->
                                    [dead[i] EXCEPT !.location = Loc("Abyss")]],
                 !.kitchen = [i \in 1..Len(alive) |->
                                 [alive[i] EXCEPT !.location = Loc("Kitchen")]]]

\* cleanup_board: feed.retain keeps the feed cards of positive virality
cleanup_board(g) ==
    reindex_feed(
        [g EXCEPT !.feed = SelectSeq(@, LAMBDA c : c.current_virality > 0),
                  !.players = [s \in Seats |-> cleanup_kitchen(g.players[s])]])

\* check_win_condition that gives a tie at or above the threshold to the
\* Opponent
check_win_condition_tie_to_opponent(g) ==
    LET host == g.players["Host"]
        opp == g.players["Opponent"]
    IN IF host.score >= SCORE_TO_WIN /\ opp.score >= SCORE_TO_WIN
       THEN (IF opp.score >= host.score THEN <<"Opponent">> ELSE <<"Host">>)
       ELSE IF host.score >= SCORE_TO_WIN THEN <<"Host">>
       ELSE IF opp.score >= SCORE_TO_WIN THEN <<"Opponent">>
       ELSE <<>>

\* check_win_condition: Option<Seat>
check_win_condition(g) ==
    LET host == g.players["Host"]
        opp == g.players["Opponent"]
        host_won == host.score >= SCORE_TO_WIN
        opp_won == opp.score >= SCORE_TO_WIN
    IN IF host_won /\ opp_won
       THEN (IF opp.score > host.score THEN <<"Opponent">> ELSE <<"Host">>)
       ELSE IF host_won THEN <<"Host">>
       ELSE IF opp_won THEN <<"Opponent">>
       ELSE <<>>

\* finish_turn that leaves the commits of the resolved turn in place
finish_turn_keeping_commits(g, our, host_plan, opponent_plan) ==
    Let(cleanup_board(apply_cook_and_decay(apply_feed_yield(
            resolve_posts(g, our, host_plan.posts, opponent_plan.posts)))),
        LAMBDA g2 :
    Let(check_win_condition(g2), LAMBDA w :
       IF w # <<>> THEN [g2 EXCEPT !.winner = w, !.phase = "GameOver"]
       ELSE [g2 EXCEPT !.turn = @ + 1,
                       !.initiative = other(@),
                       !.players = [s \in Seats |->
                           draw_card(reset_for_new_turn(g2.players[s]))],
                       !.phase = "Commit"]))

\* finish_turn that leaves the initiative where it is
finish_turn_keeping_initiative(g, our, host_plan, opponent_plan) ==
    Let(cleanup_board(apply_cook_and_decay(apply_feed_yield(
            resolve_posts(g, our, host_plan.posts, opponent_plan.posts)))),
        LAMBDA g2 :
    Let(check_win_condition(g2), LAMBDA w :
       IF w # <<>> THEN [g2 EXCEPT !.winner = w, !.phase = "GameOver"]
       ELSE [g2 EXCEPT !.turn = @ + 1,
                       !.players = [s \in Seats |->
                           draw_card(reset_for_new_turn(
                               [g2.players[s] EXCEPT !.commit = <<>>]))],
                       !.phase = "Commit"]))

\* the tail of resolve_turn once both plans and the exploits went through
finish_turn(g, our, host_plan, opponent_plan) ==
    Let(cleanup_board(apply_cook_and_decay(apply_feed_yield(
            resolve_posts(g, our, host_plan.posts, opponent_plan.posts)))),
        LAMBDA g2 :
    Let(check_win_condition(g2), LAMBDA w :
       IF w # <<>> THEN [g2 EXCEPT !.winner = w, !.phase = "GameOver"]
       ELSE [g2 EXCEPT !.turn = @ + 1,
                       !.initiative = other(@),
                       !.players = [s \in Seats |->
                           draw_card(reset_for_new_turn(
                               [g2.players[s] EXCEPT !.commit = <<>>]))],
                       !.phase = "Commit"]))

\* resolve_turn: each `?` returns with whatever was mutated so far
resolve_turn(g, our, host_plan, opponent_plan) ==
    Try(apply_turn_for_seat([g EXCEPT !.phase = "Resolving"], "Host", host_plan),
        LAMBDA g1 :
    Try(apply_turn_for_seat(g1, "Opponent", opponent_plan), LAMBDA g2 :
    Try(resolve_exploits(g2, our, g2.initiative, host_plan, opponent_plan),
        LAMBDA g3 :
    Ok(finish_turn(g3, our, host_plan, opponent_plan)))))

---------------------------------------------------------------------------
(* game.rs: the commit / reveal / stake protocol *)

TurnCommit(hash, salt, revealed, turn) ==
    [hash |-> hash, salt |-> salt, revealed |-> revealed, turn |-> turn]

has_revealed(p) == p.commit # <<>> /\ p.commit[1].revealed # <<>>

ready_to_resolve(g) == \A s \in Seats : has_revealed(g.players[s])

player_node(g, seat) == g.players[seat].node_id

\* plan_for(seat).unwrap_or_default()
plan_for(g, seat) ==
    IF has_revealed(g.players[seat]) THEN g.players[seat].commit[1].revealed[1]
    ELSE DefaultPlan

\* the serialisation hashed by state_hash covers every field of GameState
state_hash(g) == [turn |-> g.turn, hash |-> Sha256(g)]

\* doubling at a width that holds every product
double_stakes_unbounded(g) == [g EXCEPT !.stakes = Max(@ * 2, 1)]

\* double_stakes with a multiplication that wraps around in the u8
double_stakes_wrapping(g) == [g EXCEPT !.stakes = Max((@ * 2) % (U8_MAX + 1), 1)]

double_stakes(g) == [g EXCEPT !.stakes = Max(saturating_mul(@, 2), 1)]

\* process_based_calls that takes a single call for no call
process_based_calls_both_only(g, host_based, opp_based) ==
    IF host_based /\ opp_based THEN double_stakes(g) ELSE g

process_based_calls(g, host_based, opp_based) ==
    IF host_based /\ opp_based THEN double_stakes(g)
    ELSE IF host_based
    THEN [g EXCEPT !.pending_stakes = <<player_node(g, "Host")>>]
    ELSE IF opp_based
    THEN [g EXCEPT !.pending_stakes = <<player_node(g, "Opponent")>>]
    ELSE g

\* record_commit without the check that the game is not over
record_commit_unchecked(g, seat, hash) ==
    Ok([g EXCEPT !.players[seat].commit =
                     <<TurnCommit(hash, <<>>, <<>>, g.turn)>>,
                 !.phase = IF @ # "Reveal" THEN "Commit" ELSE @])

record_commit(g, seat, hash) ==
    IF g.phase = "GameOver" THEN Err(g, "game is over")
    ELSE Ok([g EXCEPT !.players[seat].commit =
                          <<TurnCommit(hash, <<>>, <<>>, g.turn)>>,
                      !.phase = IF @ # "Reveal" THEN "Commit" ELSE @])

\* resolve_if_ready that waits only for a claim its own reveals have made
resolve_if_ready_past_claim(g, our) ==
    IF ready_to_resolve(g)
    THEN LET host_plan == plan_for(g, "Host")
             opp_plan == plan_for(g, "Opponent")
             g1 == process_based_calls(g, host_plan.based, opp_plan.based)
         IN IF g1.pending_stakes # <<>> /\ g.pending_stakes = <<>>
            THEN Ok([g1 EXCEPT !.phase = "StakePending"])
            ELSE resolve_turn([g1 EXCEPT !.phase = "Resolving"], our, host_plan,
                              opp_plan)
    ELSE Ok([g EXCEPT !.phase = "Reveal"])

resolve_if_ready(g, our) ==
    IF ready_to_resolve(g)
    THEN LET host_plan == plan_for(g, "Host")
             opp_plan == plan_for(g, "Opponent")
             g1 == process_based_calls(g, host_plan.based, opp_plan.based)
         IN IF g1.pending_stakes # <<>>
            THEN Ok([g1 EXCEPT !.phase = "StakePending"])
            ELSE resolve_turn([g1 EXCEPT !.phase = "Resolving"], our, host_plan,
                              opp_plan)
    ELSE Ok([g EXCEPT !.phase = "Reveal"])

\* reveal_error without the comparison of the hashes
reveal_error_unchecked(g, seat, plan, salt) ==
    LET commit == g.players[seat].commit
    IN IF g.phase = "GameOver" THEN "game is over"
       ELSE IF commit # <<>> /\ commit[1].turn # g.turn THEN "commit turn mismatch"
       ELSE "ok"

\* the checks record_reveal makes before it stores anything
reveal_error(g, seat, plan, salt) ==
    LET commit == g.players[seat].commit
    IN IF g.phase = "GameOver" THEN "game is over"
       ELSE IF commit # <<>> /\ commit[1].turn # g.turn THEN "commit turn mismatch"
       ELSE IF commit # <<>> /\ commit[1].hash # commitment_for(plan, salt)
       THEN "commit hash mismatch"
       ELSE "ok"

\* store_reveal that records the plan and leaves the salt out
store_reveal_without_salt(g, seat, plan, salt) ==
    [g EXCEPT !.players[seat].commit =
         <<TurnCommit(commitment_for(plan, salt), <<>>, <<plan>>, g.turn)>>]

\* the TurnCommit record_reveal stores once the checks passed
store_reveal(g, seat, plan, salt) ==
    [g EXCEPT !.players[seat].commit =
         <<TurnCommit(commitment_for(plan, salt), <<salt>>, <<plan>>, g.turn)>>]

record_reveal(g, our, seat, plan, salt) ==
    IF reveal_error(g, seat, plan, salt) # "ok"
    THEN Err(g, reveal_error(g, seat, plan, salt))
    ELSE resolve_if_ready(store_reveal(g, seat, plan, salt), our)

\* call_based that raises the stakes with every call
call_based_raising(g, seat) ==
    Ok([double_stakes(g) EXCEPT !.pending_stakes = <<player_node(g, seat)>>,
                                !.phase = "StakePending"])

call_based(g, seat) ==
    LET caller == player_node(g, seat)
    IN IF g.pending_stakes # <<>> /\ g.pending_stakes[1] # caller
       THEN Ok([double_stakes(g) EXCEPT
                    !.pending_stakes = <<>>,
                    !.phase = IF @ # "GameOver" THEN "Commit" ELSE @])
       ELSE Ok([g EXCEPT !.pending_stakes = <<caller>>,
                         !.phase = "StakePending"])

\* accept_based without the check that a claim is pending
accept_based_unchecked(g, our, seat) ==
    LET g1 == [double_stakes(g) EXCEPT !.pending_stakes = <<>>]
    IN IF ready_to_resolve(g1)
       THEN resolve_turn([g1 EXCEPT !.phase = "Resolving"], our,
                         plan_for(g1, "Host"), plan_for(g1, "Opponent"))
       ELSE Ok([g1 EXCEPT !.phase = IF @ # "GameOver" THEN "Commit" ELSE @])

accept_based(g, our, seat) ==
    IF g.pending_stakes = <<>> THEN Err(g, "no pending stakes to accept")
    ELSE
    LET g1 == [double_stakes(g) EXCEPT !.pending_stakes = <<>>]
    IN IF ready_to_resolve(g1)
       THEN resolve_turn([g1 EXCEPT !.phase = "Resolving"], our,
                         plan_for(g1, "Host"), plan_for(g1, "Opponent"))
       ELSE Ok([g1 EXCEPT !.phase = IF @ # "GameOver" THEN "Commit" ELSE @])

\* fold_based that takes the folding seat for the one the claim was made to
fold_based_to_claimant(g, seat) ==
    IF g.pending_stakes = <<>> THEN Err(g, "no pending stakes to fold")
    ELSE Ok([g EXCEPT !.pending_stakes = <<>>,
                      !.phase = "GameOver",
                      !.winner = IF g.pending_stakes[1] = player_node(g, "Host")
                                 THEN <<"Host">> ELSE <<"Opponent">>])

fold_based(g, seat) ==
    IF g.pending_stakes = <<>> THEN Err(g, "no pending stakes to fold")
    ELSE Ok([g EXCEPT !.pending_stakes = <<>>,
                      !.phase = "GameOver",
                      !.winner = <<other(seat)>>])

---------------------------------------------------------------------------
(* lib.rs: one match between two nodes.  `game` is the GameState of the   *)
(* hosting node and `ret` what the last operation that changed it         *)
(* returned.  `remote` is the copy the opponent's node received with      *)
(* SyncGame; SpecPeers applies every operation on both nodes, each with   *)
(* its own our().node.  `bound_hash[X]` remembers the hash seat X had     *)
(* committed when the other seat made the reveal that now stands.         *)

HostNode == "host.os"
OpponentNode == "opp.os"

Seeds == {42}

\* decks of MEME_LIMIT memes and EXPLOIT_LIMIT exploits, and the one-card
\* deck the tests of lib.rs build their (finished) games from
HostDeck ==
    <<"n09", "m10", "n09", "n09", "m10", "t01", "n09", "t01", "m10", "d09",
      "d09", "m10">>
OpponentDeck ==
    <<"n09", "n09", "d09", "t01", "t01", "m10", "n09", "m10", "t01", "m10",
      "t01", "n09">>
InvalidDeck == <<"n01">>
HostDecks == {HostDeck, InvalidDeck}

Salts == {"s1", "s2"}
CommitSalt == "s1"

\* exploration stops at turn MaxTurn and once the stakes exceed MaxStakes;
\* stake calls (call_based and plans that carry the flag) are explored in
\* the turns before StakeTurns, the plans that cast "d09", "t01", "d07" or
\* "c06" from StakeTurns on
MaxTurn == 2
MaxStakes == 1
StakeTurns == 1

PostAction(card_id) == [card_id |-> card_id]

\* ids of the cards of `cards` that satisfy P, in order
ids_where(cards, P(_)) ==
    LET hit == SelectSeq(cards, P) IN [i \in 1..Len(hit) |-> hit[i].instance_id]

\* the plans a seat submits, built from its hand and the feed: nothing,
\* nothing with a stake call, its first meme played and posted (with "m10"
\* cast along when held), "m10" played to the kitchen, "d09" cast, "t01"
\* cast on the first enemy card of the feed, "d07" cast, and "c06" cast
\* on the seat's first card of the feed
PlansFor(g, seat) ==
    LET hand == g.players[seat].hand
        memes == ids_where(hand, is_meme)
        of(v) == ids_where(hand, LAMBDA c : c.variant_id = v)
        enemy == ids_where(g.feed, LAMBDA c : c.owner = other(seat))
        cast(v, target) == <<ExploitAction(of(v)[1], target)>>
        post == IF memes = <<>> THEN {}
                ELSE {TurnPlan(<<memes[1]>>, <<PostAction(memes[1])>>,
                               IF of("m10") = <<>> THEN <<>> ELSE cast("m10", <<>>),
                               FALSE)}
        misplay == IF of("m10") = <<>> THEN {}
                   ELSE {TurnPlan(<<of("m10")[1]>>, <<>>, <<>>, FALSE)}
        shuffle_feed == IF of("d09") = <<>> THEN {}
                        ELSE {TurnPlan(<<>>, <<>>, cast("d09", <<>>), FALSE)}
        damage == IF of("t01") = <<>> \/ enemy = <<>> THEN {}
                  ELSE {TurnPlan(<<>>, <<>>,
                                 cast("t01", <<TargetCard(enemy[1])>>), FALSE)}
        spawn == IF of("d07") = <<>> THEN {}
                 ELSE {TurnPlan(<<>>, <<>>, cast("d07", <<>>), FALSE)}
        own == ids_where(g.feed, LAMBDA c : c.owner = seat)
        protect == IF of("c06") = <<>> \/ own = <<>> THEN {}
                   ELSE {TurnPlan(<<>>, <<>>,
                                  cast("c06", <<TargetCard(own[1])>>), FALSE)}
    IN {DefaultPlan} \cup post \cup misplay
           \cup (IF g.turn < StakeTurns THEN {TurnPlan(<<>>, <<>>, <<>>, TRUE)}
                 ELSE shuffle_feed \cup damage \cup spawn \cup protect)

\* a game left in Resolving by a failed resolution is not explored further
Playable ==
    /\ game.turn < MaxTurn
    /\ game.stakes <= MaxStakes
    /\ game.phase # "Resolving"

Init ==
    \E b \in {build_game(HostNode, 1, seed, host_deck, OpponentDeck, OpponentNode) :
                  seed \in Seeds, host_deck \in HostDecks} :
        /\ b.ret = "ok"
        /\ game = b.g
        /\ remote = b.g
        /\ ret = "ok"
        /\ bound_hash = [s \in Seats |-> <<>>]

\* the hash seat X is held to: set when the reveal of the other seat is
\* stored while X has committed and not revealed; cleared when the turn
\* changes or the other seat withdraws its reveal by committing again
next_bound_hash(g, g2, seat) ==
    [X \in Seats |->
        IF g2.turn # g.turn \/ ~has_revealed(g2.players[other(X)]) THEN <<>>
        ELSE IF /\ seat = other(X)
                /\ ~has_revealed(g.players[seat])
                /\ g.players[X].commit # <<>>
                /\ ~has_revealed(g.players[X])
        THEN <<g.players[X].commit[1].hash>>
        ELSE bound_hash[X]]

\* one operation of `seat` with the result r on the hosting node (an
\* operation that is rejected and changes nothing is a stuttering step)
Step(seat, r) ==
    /\ Playable
    /\ r.g # game
    /\ game' = r.g
    /\ ret' = r.ret
    /\ bound_hash' = next_bound_hash(game, r.g, seat)

RecordCommit ==
    \E seat \in Seats : \E plan \in PlansFor(game, seat) :
        /\ Step(seat, record_commit(game, seat, commitment_for(plan, CommitSalt)))
        /\ UNCHANGED remote

RecordReveal ==
    \E seat \in Seats : \E plan \in PlansFor(game, seat) :
        /\ Step(seat, record_reveal(game, HostNode, seat, plan, CommitSalt))
        /\ UNCHANGED remote

CallBased ==
    \E seat \in Seats :
        /\ game.turn < StakeTurns
        /\ Step(seat, call_based(game, seat))
        /\ UNCHANGED remote

AcceptBased ==
    \E seat \in Seats :
        /\ Step(seat, accept_based(game, HostNode, seat))
        /\ UNCHANGED remote

FoldBased ==
    \E seat \in Seats :
        /\ Step(seat, fold_based(game, seat))
        /\ UNCHANGED remote

Next == RecordCommit \/ RecordReveal \/ CallBased \/ AcceptBased \/ FoldBased

Spec == Init /\ [][Next]_vars

\* WireMessage::Commit and WireMessage::Reveal
WireCommit(seat, hash, turn) ==
    [kind |-> "Commit", seat |-> seat, hash |-> hash, turn |-> turn]

WireReveal(seat, plan, salt, turn) ==
    [kind |-> "Reveal", seat |-> seat, plan |-> plan, salt |-> salt, turn |-> turn]

\* handle_wire_message that lets a commit end the Reveal phase
handle_wire_message_recommitting(g, our, message) ==
    IF g.turn # message.turn THEN Err(g, "wire turn mismatch")
    ELSE IF message.kind = "Commit"
    THEN Try(record_commit(g, message.seat, message.hash), LAMBDA g1 :
                 Ok([g1 EXCEPT !.phase = "Commit"]))
    ELSE record_reveal(g, our, message.seat, message.plan, message.salt)

\* handle_wire_message on the node `our`; commit_turn and reveal_turn make
\* the same check and the same call for the local seat
handle_wire_message(g, our, message) ==
    IF g.turn # message.turn THEN Err(g, "wire turn mismatch")
    ELSE IF message.kind = "Commit"
    THEN record_commit(g, message.seat, message.hash)
    ELSE record_reveal(g, our, message.seat, message.plan, message.salt)

\* the GameState of the node `our` once it has handled messages[i..]
RECURSIVE deliver(_, _, _, _)
deliver(g, our, messages, i) ==
    IF i > Len(messages) THEN g
    ELSE Let(handle_wire_message(g, our, messages[i]).g, LAMBDA g2 :
                 deliver(g2, our, messages, i + 1))

\* the same operations, delivered to the opponent's node as well
PeerRecordCommit ==
    \E seat \in Seats : \E plan \in PlansFor(game, seat) :
        /\ Step(seat, record_commit(game, seat, commitment_for(plan, CommitSalt)))
        /\ remote' = record_commit(remote, seat,
                                   commitment_for(plan, CommitSalt)).g

PeerRecordReveal ==
    \E seat \in Seats : \E plan \in PlansFor(game, seat) :
        /\ Step(seat, record_reveal(game, HostNode, seat, plan, CommitSalt))
        /\ remote' = record_reveal(remote, OpponentNode, seat, plan, CommitSalt).g

PeerCallBased ==
    \E seat \in Seats :
        /\ game.turn < StakeTurns
        /\ Step(seat, call_based(game, seat))
        /\ remote' = call_based(remote, seat).g

PeerAcceptBased ==
    \E seat \in Seats :
        /\ Step(seat, accept_based(game, HostNode, seat))
        /\ remote' = accept_based(remote, OpponentNode, seat).g

PeerFoldBased ==
    \E seat \in Seats :
        /\ Step(seat, fold_based(game, seat))
        /\ remote' = fold_based(remote, seat).g

NextPeers ==
    \/ PeerRecordCommit \/ PeerRecordReveal \/ PeerCallBased
    \/ PeerAcceptBased \/ PeerFoldBased

SpecPeers == Init /\ [][NextPeers]_vars

\* matches with decks that, under the first seed, let both seats post in
\* turn 0 and again in turn 1 and hand the Host "d07" (Bot Farm) with its
\* draw for turn 1, and under the second seed give the Host "c06" (HODL)
\* from the start and the Opponent "t01" with its draw for turn 1
BotFarmDeck ==
    <<"n09", "n09", "n09", "n09", "t01", "m10", "c06", "t01", "m10", "d07",
      "t01", "m10">>
RepostDeck ==
    <<"n09", "n09", "n09", "n09", "t01", "m10", "t01", "t01", "m10", "t01",
      "d09", "m10">>
CardSeeds == {42, 2}

InitCards ==
    \E b \in {build_game(HostNode, 1, seed, BotFarmDeck, RepostDeck, OpponentNode) :
                  seed \in CardSeeds} :
        /\ b.ret = "ok"
        /\ game = b.g
        /\ remote = b.g
        /\ ret = "ok"
        /\ bound_hash = [s \in Seats |-> <<>>]

\* card play alone: commits and reveals, no stake message
NextCards == RecordCommit \/ RecordReveal

SpecCards == InitCards /\ [][NextCards]_vars

\* the stake side-protocol alone, called again and again on the game as
\* built: no plan is ever revealed, and the multiplier is followed up to
\* where the u8 stops it
StakeStep(r) ==
    /\ r.g # game
    /\ game' = r.g
    /\ ret' = r.ret
    /\ UNCHANGED <<remote, bound_hash>>

NextStakes ==
    \/ \E seat \in Seats : StakeStep(call_based(game, seat))
    \/ \E seat \in Seats : StakeStep(accept_based(game, HostNode, seat))
    \/ \E seat \in Seats : StakeStep(fold_based(game, seat))

SpecStakes == Init /\ [][NextStakes]_vars

\* the positions the tests of lib.rs set up on a built game and resolve a
\* turn on: both hands and kitchens cleared and the mana raised to 10, the
\* mana and max_mana set (to MANA_CAP unless said otherwise),
\* stake multiplier set, a feed slot pinned for the Opponent, and cards
\* made with new_instance_from_def pushed into the feed, the kitchens and
\* the hands, the Shielded ones with protected_until_end set when
\* `protect` is.  Cards are written <<variant, owner>>.
Setup(feed, kitchens, hands, stakes, pins, protect) ==
    [feed |-> feed, kitchens |-> kitchens, hands |-> hands, stakes |-> stakes,
     pins |-> pins, protect |-> protect, mana |-> MANA_CAP]

\* entries[i..] instantiated in order and pushed into `zone`
RECURSIVE place(_, _, _, _)
place(g, zone, entries, i) ==
    IF i > Len(entries) THEN g
    ELSE
    Let(new_instance_from_def(g, find_definition(entries[i][1])[1], entries[i][2],
                              Loc(zone)), LAMBDA one :
    place(CASE zone = "Feed" ->
                  reindex_feed([one.g EXCEPT !.feed = Append(@, one.card)])
            [] zone = "Kitchen" ->
                  [one.g EXCEPT !.players[entries[i][2]].kitchen =
                                    Append(@, one.card)]
            [] OTHER ->
                  [one.g EXCEPT !.players[entries[i][2]].hand = Append(@, one.card)],
          zone, entries, i + 1))

board_game(g, setup) ==
    LET flag(card) == [card EXCEPT !.protected_until_end =
                                       setup.protect /\ card.shield > 0]
        flagged(cards) == [i \in 1..Len(cards) |-> flag(cards[i])]
        placed == place(place(place(
        [g EXCEPT !.stakes = setup.stakes,
                  !.players = [s \in Seats |->
                      [g.players[s] EXCEPT
                          !.hand = <<>>, !.kitchen = <<>>, !.mana = setup.mana,
                          !.max_mana = setup.mana,
                          !.pinned_slots = IF s = "Opponent" THEN setup.pins
                                           ELSE <<>>]]],
        "Feed", setup.feed, 1), "Kitchen", setup.kitchens, 1), "Hand",
        setup.hands, 1)
    IN [placed EXCEPT !.feed = flagged(@),
                      !.players = [s \in Seats |->
                          [placed.players[s] EXCEPT !.kitchen = flagged(@)]]]

\* posting into feeds with and without a Gatekeeper ("m04"), a Heavy card
\* ("d10") among the kitchen cards, under both stake multipliers
PostingBoards ==
    {Setup(feed, <<<<"n01", "Host">>, <<"d10", "Host">>, <<"n03", "Opponent">>,
                   <<"n01", "Opponent">>>>,
           <<<<"m05", "Host">>, <<"d09", "Opponent">>>>, stakes, <<>>, FALSE) :
         feed \in {<<>>, <<<<"m04", "Host">>>>,
                   <<<<"n01", "Opponent">>, <<"m04", "Host">>>>,
                   <<<<"n02", "Host">>, <<"m04", "Host">>, <<"n01", "Opponent">>>>},
         stakes \in {1, 2}}

\* single-card enemy exploits against kitchens that hold a Taunt ("t10"), a
\* Stealth ("n08") or a Shielded ("c05") card, each seat also holding a
\* Taunt card to play
TargetBoards ==
    {Setup(<<<<"c05", "Host">>, <<"n01", "Opponent">>>>,
           kitchens,
           <<<<exploit, "Host">>, <<"t10", "Host">>, <<exploit, "Opponent">>,
             <<"t10", "Opponent">>>>, 1, <<>>, TRUE) :
         kitchens \in {<<<<"c05", "Host">>, <<"n02", "Opponent">>>>,
                       <<<<"t10", "Host">>, <<"c05", "Host">>,
                         <<"n08", "Opponent">>, <<"n01", "Opponent">>>>},
         exploit \in {"t01", "t08", "t09", "m03"}}

\* MoveUp ("m05"), PinSlot ("m02") and ShuffleFeed ("d09") on feeds that
\* hold an Anchor card ("m07"), with and without slot 1 pinned
FeedBoards ==
    {Setup(feed, <<>>,
           <<<<"m05", "Host">>, <<"d09", "Host">>, <<"m02", "Opponent">>,
             <<"d09", "Opponent">>>>, 1, pins, FALSE) :
         feed \in {<<<<"m07", "Host">>, <<"n01", "Host">>>>,
                   <<<<"n01", "Opponent">>, <<"m07", "Host">>>>,
                   <<<<"n01", "Host">>, <<"n02", "Host">>, <<"n03", "Opponent">>>>},
         pins \in {<<>>, <<1>>}}

\* kitchens that hold a plain ("n01"), a Haste ("n09") and a frozen ("c09")
\* card, each seat holding LockFeed ("m06") and the Host also a meme to
\* play and Protect ("c06")
KitchenBoards ==
    {Setup(feed,
           <<<<"n01", "Host">>, <<"n09", "Host">>, <<"c09", "Host">>,
             <<"n01", "Opponent">>, <<"n09", "Opponent">>>>,
           <<<<"n02", "Host">>, <<"m06", "Host">>, <<"c06", "Host">>,
             <<"m06", "Opponent">>>>, 1, <<>>, FALSE) :
         feed \in {<<>>, <<<<"n03", "Opponent">>, <<"n01", "Host">>>>}}

\* each seat holding Tax ("d08"), with the mana a match starts with and
\* with one less than the cap
ManaBoards ==
    {[Setup(<<<<"n01", "Host">>>>, <<>>,
            <<<<"d08", "Host">>, <<"d08", "Opponent">>>>, 1, <<>>, FALSE)
         EXCEPT !.mana = mana] : mana \in {STARTING_MANA, MANA_CAP - 1}}

BoardSetups ==
    PostingBoards \cup TargetBoards \cup FeedBoards \cup ManaBoards

\* the plans resolved on a board: nothing, the seat's first meme played,
\* its first kitchen card posted, all its kitchen cards posted, its first
\* meme played and posted along with all its kitchen cards, and each
\* exploit of its hand cast at an enemy kitchen card, at an enemy or own
\* feed card, at a feed slot, or without a target
BoardPlans(g, seat) ==
    LET p == g.players[seat]
        memes == ids_where(p.hand, is_meme)
        exploits == ids_where(p.hand, LAMBDA c : ~is_meme(c))
        cooked == ids_where(p.kitchen, LAMBDA c : TRUE)
        enemy == ids_where(g.players[other(seat)].kitchen, LAMBDA c : TRUE)
        targets == {<<>>} \cup {<<TargetCard(enemy[i])>> : i \in 1..Len(enemy)}
                       \cup {<<TargetCard(g.feed[i].instance_id)>> :
                                 i \in 1..Len(g.feed)}
                       \cup {<<TargetFeedSlot(slot)>> : slot \in 1..(FEED_SIZE - 1)}
        play == IF memes = <<>> THEN {}
                ELSE {TurnPlan(<<memes[1]>>, <<>>, <<>>, FALSE)}
        post == IF cooked = <<>> THEN {}
                ELSE {TurnPlan(<<>>, <<PostAction(cooked[1])>>, <<>>, FALSE),
                      TurnPlan(<<>>, [i \in 1..Len(cooked) |-> PostAction(cooked[i])],
                               <<>>, FALSE)}
        both == IF memes = <<>> \/ cooked = <<>> THEN {}
                ELSE {TurnPlan(<<memes[1]>>,
                               [i \in 1..(Len(cooked) + 1) |->
                                   PostAction((cooked \o <<memes[1]>>)[i])],
                               <<>>, FALSE)}
        cast == {TurnPlan(<<>>, <<>>, <<ExploitAction(exploits[i], target)>>, FALSE) :
                     i \in 1..Len(exploits), target \in targets}
    IN {DefaultPlan} \cup play \cup post \cup both \cup cast

InitBoard ==
    \E b \in {build_game(HostNode, 1, seed, HostDeck, OpponentDeck, OpponentNode) :
                  seed \in Seeds} :
        \E setup \in BoardSetups :
            /\ b.ret = "ok"
            /\ game = board_game(b.g, setup)
            /\ remote = b.g
            /\ ret = "ok"
            /\ bound_hash = [s \in Seats |-> <<>>]

\* resolve_turn called on the board with the plan of one seat, the other
\* seat doing nothing or playing a meme
BoardTurn ==
    \E seat \in Seats : \E plan \in BoardPlans(game, seat) :
        \E reply \in {r \in BoardPlans(game, other(seat)) :
                         r.exploits = <<>> /\ r.posts = <<>>} :
            /\ game.phase = "Commit"
            /\ game.turn < MaxTurn
            /\ Let(IF seat = "Host" THEN resolve_turn(game, HostNode, plan, reply)
                   ELSE resolve_turn(game, HostNode, reply, plan), LAMBDA r :
                   /\ game' = r.g
                   /\ ret' = r.ret)
            /\ UNCHANGED <<remote, bound_hash>>

NextBoard == BoardTurn

SpecBoard == InitBoard /\ [][NextBoard]_vars

\* a match whose kitchens are stocked: both seats may post in the same turn
InitKitchen ==
    \E b \in {build_game(HostNode, 1, seed, HostDeck, OpponentDeck, OpponentNode) :
                  seed \in Seeds} :
        \E setup \in KitchenBoards :
            /\ b.ret = "ok"
            /\ game = board_game(b.g, setup)
            /\ remote = b.g
            /\ ret = "ok"
            /\ bound_hash = [s \in Seats |-> <<>>]

\* resolve_turn called with the plan of one seat, the other seat doing
\* nothing, playing a meme or posting
KitchenTurn ==
    \E seat \in Seats : \E plan \in BoardPlans(game, seat) :
        \E reply \in {r \in BoardPlans(game, other(seat)) : r.exploits = <<>>} :
            /\ game.phase = "Commit"
            /\ game.turn < MaxTurn
            /\ Let(IF seat = "Host" THEN resolve_turn(game, HostNode, plan, reply)
                   ELSE resolve_turn(game, HostNode, reply, plan), LAMBDA r :
                   /\ game' = r.g
                   /\ ret' = r.ret)
            /\ UNCHANGED <<remote, bound_hash>>

NextKitchen == KitchenTurn

SpecKitchen == InitKitchen /\ [][NextKitchen]_vars

\* match creation: a request names the seed and the two decks, and
\* build_game answers it once.  `remote` holds the request, `game` is <<>>
\* until the match exists and stays so when the request is refused.
\* The Host's decks are every order of MEME_LIMIT memes among MAX_DECK_SIZE
\* cards and decks of a wrong size or composition, one of them naming a
\* card that is not in the catalog.
DeckOrders ==
    {[i \in 1..MAX_DECK_SIZE |-> IF i \in memes THEN "n09" ELSE "m10"] :
         memes \in {m \in SUBSET (1..MAX_DECK_SIZE) : Cardinality(m) = MEME_LIMIT}}

ShortDeck == SubSeq(HostDeck, 1, MAX_DECK_SIZE - 1)
BadDecks ==
    {ShortDeck, HostDeck \o <<"m10">>, [HostDeck EXCEPT ![1] = "m10"],
     [HostDeck EXCEPT ![2] = "n01"], InvalidDeck, <<>>,
     [HostDeck EXCEPT ![2] = "x99"]}

InitDecks ==
    \E seed \in CardSeeds : \E host_deck \in DeckOrders \cup BadDecks :
        \E opponent_deck \in {OpponentDeck, ShortDeck} :
            /\ game = <<>>
            /\ remote = [seed |-> seed, host_deck |-> host_deck,
                         opponent_deck |-> opponent_deck]
            /\ ret = "ok"
            /\ bound_hash = [s \in Seats |-> <<>>]

BuildGame ==
    /\ game = <<>>
    /\ ret = "ok"
    /\ Let(build_game(HostNode, 1, remote.seed, remote.host_deck,
                      remote.opponent_deck, OpponentNode), LAMBDA b :
           /\ game' = b.g
           /\ ret' = b.ret)
    /\ UNCHANGED <<remote, bound_hash>>

NextDecks == BuildGame

SpecDecks == InitDecks /\ [][NextDecks]_vars

---------------------------------------------------------------------------
(* Properties *)

\* the (plan, salt) pairs a reveal is tried with
RevealInputs(g, seat) == PlansFor(g, seat) \X Salts

\* C1: once the other seat has revealed, seat X is bound to the hash it had
\* committed before that reveal: whenever X stands revealed, the commitment
\* of its revealed plan is that hash.
C1_BoundToCommittedHash ==
    \A X \in Seats :
        (bound_hash[X] # <<>> /\ has_revealed(game.players[X]))
            => game.players[X].commit[1].hash = bound_hash[X][1]

\* C2: when a seat has a commit and record_reveal is called with a (plan,
\* salt) whose commitment differs from the stored hash, the call fails and
\* the GameState, the seat's commit included, is what it was.
C2_MismatchedRevealRejected ==
    \A seat \in Seats : \A in \in RevealInputs(game, seat) :
        LET commit == game.players[seat].commit
            r == record_reveal(game, HostNode, seat, in[1], in[2])
        IN (commit # <<>> /\ commit[1].hash # commitment_for(in[1], in[2]))
               => (r.ret # "ok" /\ r.g = game)

\* C2, its case: a seat holds an unrevealed commit and a reveal that does
\* not match it is turned down for that reason.
C2_Witness ==
    \E seat \in Seats : \E in \in RevealInputs(game, seat) :
        /\ game.players[seat].commit # <<>>
        /\ ~has_revealed(game.players[seat])
        /\ record_reveal(game, HostNode, seat, in[1], in[2]).ret
               = "commit hash mismatch"
        /\ ~has_revealed(
               record_reveal(game, HostNode, seat, in[1], in[2]).g.players[seat])

\* C3: an operation that returns an error leaves the GameState exactly as
\* it was before the call.
C3_ErrorLeavesStateUnchanged == [][ret' # "ok" => game' = game]_vars

\* C4: the two nodes, having applied the same operations to the same
\* synced GameState, hold identical GameStates and state hashes.
C4_PeersAgree == state_hash(game) = state_hash(remote)

\* C5: once the phase is GameOver no operation changes the GameState.
C5_GameOverIsTerminal == [][game.phase = "GameOver" => game' = game]_vars

\* what a plan costs its seat: each card's cost less the seat's discount,
\* floored at 0 (every card named is in the hand)
PlanCost(g, seat, plan) ==
    LET p == g.players[seat]
        ids == plan.plays_to_kitchen
               \o [i \in 1..Len(plan.exploits) |-> plan.exploits[i].card_id]
        cost_of(id) ==
            LET c == CHOOSE c \in Range(p.hand) : c.instance_id = id
            IN Max(c.cost - p.cost_discount, 0)
        RECURSIVE total(_)
        total(i) == IF i > Len(ids) THEN 0 ELSE cost_of(ids[i]) + total(i + 1)
    IN total(1)

\* the zones a seat's cards are in: its own four, and the feed
ZonesOf(g, seat) ==
    <<g.players[seat].deck, g.players[seat].hand, g.players[seat].kitchen,
      g.players[seat].abyss,
      SelectSeq(g.feed, LAMBDA c : c.owner = seat)>>

\* C6: when the plan of a seat costs more than the seat's mana, resolving
\* the turn with it (against any plan of the other seat) reports an error
\* and leaves that seat's mana and the zones of that seat's cards as they
\* were.
C6_OvercommitRejected ==
    \A seat \in Seats :
        \A plan \in PlansFor(game, seat) : \A reply \in PlansFor(game, other(seat)) :
            LET host_plan == IF seat = "Host" THEN plan ELSE reply
                opp_plan == IF seat = "Host" THEN reply ELSE plan
                r == resolve_turn(game, HostNode, host_plan, opp_plan)
            IN PlanCost(game, seat, plan) > game.players[seat].mana
                   => /\ r.ret # "ok"
                      /\ r.g.players[seat].mana = game.players[seat].mana
                      /\ ZonesOf(r.g, seat) = ZonesOf(game, seat)

\* C6, its case: a resolution stopped at the overcommitted plan of the
\* Opponent, after the plan of the Host had been applied.
C6_Witness ==
    /\ ret = "Opponent insufficient mana"
    /\ ready_to_resolve(game)
    /\ PlanCost(game, "Opponent", plan_for(game, "Opponent"))
           > game.players["Opponent"].mana

\* every card held anywhere, zone by zone
AllCards(g) ==
    g.feed \o g.players["Host"].deck \o g.players["Host"].hand
           \o g.players["Host"].kitchen \o g.players["Host"].abyss
           \o g.players["Opponent"].deck \o g.players["Opponent"].hand
           \o g.players["Opponent"].kitchen \o g.players["Opponent"].abyss

\* C7: every card instance created so far (instances are numbered from 1 by
\* next_instance) is held in exactly one zone.
C7_CardConservation ==
    LET all == AllCards(game)
    IN /\ Len(all) = game.next_instance - 1
       /\ \A i, j \in 1..Len(all) :
              all[i].instance_id = all[j].instance_id => i = j

\* C8: no operation returns with the phase Resolving.
C8_NeverLeftResolving == game.phase # "Resolving"

\* C9: when a reveal is accepted while the other seat stands revealed and
\* exactly one of the two plans carries the stake call, the game suspends
\* in StakePending with that seat as claimant; but for the stored reveal,
\* the phase and the claim, the GameState is what it was.
C9_SingleCallSuspends ==
    \A seat \in Seats : \A plan \in PlansFor(game, seat) :
        LET reply == plan_for(game, other(seat))
            caller == IF plan.based THEN seat ELSE other(seat)
            r == record_reveal(game, HostNode, seat, plan, CommitSalt)
        IN (/\ reveal_error(game, seat, plan, CommitSalt) = "ok"
            /\ has_revealed(game.players[other(seat)])
            /\ plan.based # reply.based)
               => /\ r.ret = "ok"
                  /\ r.g = [store_reveal(game, seat, plan, CommitSalt) EXCEPT
                                !.phase = "StakePending",
                                !.pending_stakes = <<player_node(game, caller)>>]

\* C9, its case: both seats stand revealed, only the Host's plan carries
\* the call, and the game waits in StakePending on the Host's claim.
C9_Witness ==
    /\ ready_to_resolve(game)
    /\ plan_for(game, "Host").based
    /\ ~plan_for(game, "Opponent").based
    /\ game.phase = "StakePending"
    /\ game.pending_stakes = <<HostNode>>
    /\ game.turn = 0
    /\ ret = "ok"

\* C10: call_based by a seat while no claim is pending registers the seat
\* as claimant and sets the phase to StakePending; the stakes and all else
\* stay as they were.
C10_CallRegistersClaim ==
    \A seat \in Seats :
        game.pending_stakes = <<>>
            => call_based(game, seat)
                   = Ok([game EXCEPT !.pending_stakes = <<player_node(game, seat)>>,
                                     !.phase = "StakePending"])

\* C10, its case: a claim stands that no pair of revealed plans made, so
\* call_based registered it.
C10_Witness ==
    /\ game.pending_stakes = <<OpponentNode>>
    /\ game.phase = "StakePending"
    /\ ~ready_to_resolve(game)
    /\ game.stakes = 1
    /\ ret = "ok"

\* the claim, if any, is held by the seat other than `seat`
claimed_by_other(g, seat) ==
    g.pending_stakes # <<>> /\ g.pending_stakes[1] # player_node(g, seat)

\* C11 as stated: call_based by a seat while the other seat's claim stands
\* doubles the stake multiplier, clears the claim and sets the phase to
\* Commit, leaving all else as it was; call_based by the claimant itself
\* leaves the multiplier as it was.
C11_CallReraisesDoubling ==
    \A seat \in Seats :
        /\ claimed_by_other(game, seat)
               => call_based(game, seat)
                      = Ok([game EXCEPT !.stakes = 2 * @,
                                        !.pending_stakes = <<>>,
                                        !.phase = "Commit"])
        /\ game.pending_stakes = <<player_node(game, seat)>>
               => call_based(game, seat).g.stakes = game.stakes

\* C11, amended: the same, with the multiplier doubled up to U8_MAX and
\* held there.
C11_CallReraisesSaturating ==
    \A seat \in Seats :
        /\ claimed_by_other(game, seat)
               => call_based(game, seat)
                      = Ok([game EXCEPT !.stakes = Min(2 * @, U8_MAX),
                                        !.pending_stakes = <<>>,
                                        !.phase = "Commit"])
        /\ game.pending_stakes = <<player_node(game, seat)>>
               => call_based(game, seat).g.stakes = game.stakes

\* C11, its case: the Host's claim stands at a multiplier of 128, and the
\* Opponent's call takes it to U8_MAX, clears the claim and returns to Commit.
C11_Witness ==
    /\ game.pending_stakes = <<HostNode>>
    /\ game.stakes = 128
    /\ call_based(game, "Opponent").g.stakes = U8_MAX
    /\ call_based(game, "Opponent").g.phase = "Commit"
    /\ call_based(game, "Opponent").g.pending_stakes = <<>>

\* C12: accept_based while a claim is pending doubles the stake multiplier
\* and clears the claim; when both seats stand revealed the suspended turn
\* is resolved in the same call, which ends in Commit of the next turn or
\* in GameOver; otherwise the phase becomes Commit and the turn counter
\* stays.
C12_AcceptDoublesAndResumes ==
    \A seat \in Seats :
        game.pending_stakes # <<>>
            => LET r == accept_based(game, HostNode, seat)
               IN /\ r.g.stakes = 2 * game.stakes
                  /\ r.g.pending_stakes = <<>>
                  /\ IF ready_to_resolve(game)
                     THEN \/ r.g.phase = "Commit" /\ r.g.turn = game.turn + 1
                          \/ r.g.phase = "GameOver"
                     ELSE r.g.phase = "Commit" /\ r.g.turn = game.turn

\* C13: fold_based by a seat while a claim is pending returns Ok with the
\* claim cleared, the phase GameOver and the other seat as winner; the
\* turn counter, the scores, the revealed plans and all else are as they
\* were, so the suspended turn is not resolved.
C13_FoldEndsGame ==
    \A seat \in Seats :
        game.pending_stakes # <<>>
            => LET r == fold_based(game, seat)
               IN /\ r.ret = "ok"
                  /\ r.g.pending_stakes = <<>>
                  /\ r.g.phase = "GameOver"
                  /\ r.g.winner = <<other(seat)>>
                  /\ r.g.turn = game.turn
                  /\ \A X \in Seats : r.g.players[X].score = game.players[X].score
                  /\ [r.g EXCEPT !.pending_stakes = game.pending_stakes,
                                 !.phase = game.phase,
                                 !.winner = game.winner] = game

\* C13, its case: a turn stood suspended on the Host's own claim with both
\* plans revealed, the Host folded, and the game is over in that turn with
\* the Opponent as winner and the plans still unresolved.
C13_Witness ==
    /\ game.phase = "GameOver"
    /\ game.winner = <<"Opponent">>
    /\ game.pending_stakes = <<>>
    /\ ready_to_resolve(game)
    /\ plan_for(game, "Host").based
    /\ ~plan_for(game, "Opponent").based
    /\ game.turn = 0
    /\ ret = "ok"

\* C14: while no claim is pending, accept_based and fold_based by either
\* seat return an error and the GameState is exactly what it was.
C14_NoClaimRejected ==
    \A seat \in Seats :
        game.pending_stakes = <<>>
            => /\ accept_based(game, HostNode, seat)
                      = Err(game, "no pending stakes to accept")
               /\ fold_based(game, seat) = Err(game, "no pending stakes to fold")

\* C14, its case: the Host has revealed, the Opponent has not, no claim is
\* pending, and the Opponent's accept_based and fold_based are refused.
C14_Witness ==
    /\ game.pending_stakes = <<>>
    /\ game.phase = "Reveal"
    /\ has_revealed(game.players["Host"])
    /\ accept_based(game, HostNode, "Opponent").ret = "no pending stakes to accept"
    /\ fold_based(game, "Opponent").ret = "no pending stakes to fold"

\* C15: while the phase is GameOver, record_commit and record_reveal by
\* either seat, with any plan and salt, return an error and the GameState
\* is exactly what it was: no commit is stored or replaced and the phase
\* stays GameOver.
C15_GameOverRejectsCommitAndReveal ==
    game.phase = "GameOver"
        => \A seat \in Seats : \A in \in RevealInputs(game, seat) :
               /\ record_commit(game, seat, commitment_for(in[1], in[2]))
                      = Err(game, "game is over")
               /\ record_reveal(game, HostNode, seat, in[1], in[2])
                      = Err(game, "game is over")

\* C15, its case: the game ended by a fold while the Host stood committed
\* and not revealed, and the Host's commit and reveal are both refused.
C15_Witness ==
    /\ game.phase = "GameOver"
    /\ game.winner # <<>>
    /\ game.players["Host"].commit # <<>>
    /\ ~has_revealed(game.players["Host"])
    /\ record_commit(game, "Host", commitment_for(DefaultPlan, "s2")).ret
           = "game is over"
    /\ record_reveal(game, HostNode, "Host", DefaultPlan, CommitSalt).ret
           = "game is over"

\* the posts of `plan` as the posts of `seat`, the other seat posting nothing
posts_of(seat, at, plan) == IF seat = at THEN plan.posts ELSE <<>>

\* C16: the feed never holds more than FEED_SIZE cards; and when a seat's
\* plan posts a card into a full feed, post resolution leaves the feed
\* full with the posted card on top, the card that stood in the last slot
\* gone from the feed and appended to its owner's Abyss, and the other
\* seat's Abyss as it was.
C16_FeedCapacity ==
    /\ Len(game.feed) <= FEED_SIZE
    /\ \A seat \in Seats : \A plan \in PlansFor(game, seat) :
           LET a == apply_turn_for_seat(game, seat, plan)
               g1 == resolve_posts(a.g, HostNode, posts_of(seat, "Host", plan),
                                   posts_of(seat, "Opponent", plan))
               last == game.feed[FEED_SIZE]
           IN (/\ plan.posts # <<>>
               /\ a.ret = "ok"
               /\ ~feed_lock_active(a.g)
               /\ Len(game.feed) = FEED_SIZE)
                  => /\ Len(g1.feed) = FEED_SIZE
                     /\ g1.feed[1].instance_id = plan.posts[1].card_id
                     /\ \A i \in 1..FEED_SIZE :
                            g1.feed[i].instance_id # last.instance_id
                     /\ g1.players[last.owner].abyss
                            = Append(a.g.players[last.owner].abyss,
                                     [last EXCEPT !.location = Loc("Abyss")])
                     /\ g1.players[other(last.owner)].abyss
                            = a.g.players[other(last.owner)].abyss

\* C16, its case: the feed is full, the Host holds a meme its plan can
\* post, and post resolution puts it on top and moves the card of the last
\* slot to its owner's Abyss.
C16_Witness ==
    /\ Len(game.feed) = FEED_SIZE
    /\ \E plan \in PlansFor(game, "Host") :
           LET a == apply_turn_for_seat(game, "Host", plan)
               g1 == resolve_posts(a.g, HostNode, plan.posts, <<>>)
               last == game.feed[FEED_SIZE]
               abyss == g1.players[last.owner].abyss
           IN /\ plan.posts # <<>>
              /\ a.ret = "ok"
              /\ Len(g1.feed) = FEED_SIZE
              /\ g1.feed[1].instance_id = plan.posts[1].card_id
              /\ abyss # <<>>
              /\ abyss[Len(abyss)].instance_id = last.instance_id

\* C17: in every reachable state each seat's hand holds at most
\* MAX_HAND_SIZE cards.
C17_HandLimit ==
    \A seat \in Seats : Len(game.players[seat].hand) <= MAX_HAND_SIZE

\* scores around SCORE_TO_WIN
WinScores == {0, 29, 30, 31, 45}

\* the winner the claim names for the scores h of the Host and o of the
\* Opponent
winner_by_score(h, o) ==
    IF h < SCORE_TO_WIN /\ o < SCORE_TO_WIN THEN <<>>
    ELSE IF o > h THEN <<"Opponent">> ELSE <<"Host">>

\* the call with result r took a seat of g to the threshold, and the game
\* ended there: GameOver, the winner by the scores, the turn counter and
\* the initiative as before, and every deck as before (no card drawn)
ends_on_win(g, r) ==
    (/\ r.ret = "ok"
     /\ \E s \in Seats : /\ g.players[s].score < SCORE_TO_WIN
                          /\ r.g.players[s].score >= SCORE_TO_WIN)
        => /\ r.g.phase = "GameOver"
           /\ r.g.winner = winner_by_score(r.g.players["Host"].score,
                                           r.g.players["Opponent"].score)
           /\ r.g.turn = g.turn
           /\ r.g.initiative = g.initiative
           /\ \A s \in Seats : r.g.players[s].deck = g.players[s].deck

\* C18: a resolution (by the last reveal or by accept_based) after which a
\* seat's score is at or above SCORE_TO_WIN ends in GameOver with the
\* winner the seat of the strictly higher score, the Host on equal scores;
\* the turn counter is not incremented, the initiative not flipped and no
\* card drawn.  The winner is as named for any pair of scores.
C18_WinCheck ==
    /\ \A seat \in Seats :
           /\ \A plan \in PlansFor(game, seat) :
                  ends_on_win(game, record_reveal(game, HostNode, seat, plan,
                                                  CommitSalt))
           /\ ends_on_win(game, accept_based(game, HostNode, seat))
    /\ \A h \in WinScores : \A o \in WinScores :
           check_win_condition([game EXCEPT !.players["Host"].score = h,
                                            !.players["Opponent"].score = o])
               = winner_by_score(h, o)

\* C18, its case: turn 1 was resolved, the Host stands at or above
\* SCORE_TO_WIN with the Opponent below it and is the winner, the game is
\* over in turn 1 and both revealed plans are still in place.
C18_Witness ==
    /\ game.phase = "GameOver"
    /\ game.players["Host"].score >= SCORE_TO_WIN
    /\ game.players["Opponent"].score < SCORE_TO_WIN
    /\ game.winner = <<"Host">>
    /\ game.turn = 1
    /\ ready_to_resolve(game)
    /\ ret = "ok"

\* g2 is g one turn on: the counter one higher, the initiative with the
\* other seat, no commit pending, the phase Commit
turn_advanced(g, g2) ==
    /\ g2.turn = g.turn + 1
    /\ g2.initiative = other(g.initiative)
    /\ \A s \in Seats : g2.players[s].commit = <<>>
    /\ g2.phase = "Commit"

\* C19, the calls: a reveal that completes the pair of plans with no claim
\* left pending, or an accept_based on a suspended turn, that returns Ok
\* with both scores below SCORE_TO_WIN has advanced the turn.
C19_ResolvedTurnAdvances ==
    \A seat \in Seats :
        /\ \A plan \in PlansFor(game, seat) :
               LET r == record_reveal(game, HostNode, seat, plan, CommitSalt)
               IN (/\ r.ret = "ok"
                   /\ has_revealed(game.players[other(seat)])
                   /\ r.g.pending_stakes = <<>>
                   /\ check_win_condition(r.g) = <<>>)
                      => turn_advanced(game, r.g)
        /\ LET r == accept_based(game, HostNode, seat)
           IN (/\ r.ret = "ok"
               /\ ready_to_resolve(game)
               /\ check_win_condition(r.g) = <<>>)
                  => turn_advanced(game, r.g)

\* C19: whenever a turn resolves without a winner the turn counter goes up
\* by exactly 1, the initiative passes to the other seat, both commits are
\* cleared and the phase is Commit; and no step changes the turn counter
\* in any other way, so it never decreases.
C19_TurnAdvance ==
    /\ []C19_ResolvedTurnAdvances
    /\ [][game'.turn = game.turn \/ turn_advanced(game, game')]_vars

\* C19, its case: turn 0 was resolved without a winner: the game is in
\* Commit of turn 1 with no commit pending and scores on the board.
C19_Witness ==
    /\ game.turn = 1
    /\ game.phase = "Commit"
    /\ game.winner = <<>>
    /\ \A s \in Seats : game.players[s].commit = <<>>
    /\ game.players["Host"].score > 0
    /\ ret = "ok"

\* the card of `cards` with the instance id `id`
card_of(cards, id) == cards[PositionOf(cards, LAMBDA c : c.instance_id = id)]

\* the plan of `seat` casts the one exploit `variant` on the feed card k
casts_on(g, seat, plan, variant, k) ==
    /\ Len(plan.exploits) = 1
    /\ plan.exploits[1].target = <<TargetCard(k)>>
    /\ \E i \in 1..Len(g.players[seat].hand) :
           /\ g.players[seat].hand[i].instance_id = plan.exploits[1].card_id
           /\ g.players[seat].hand[i].variant_id = variant

\* the instance ids of `cards`, in order
ids_of(cards) == [i \in 1..Len(cards) |-> cards[i].instance_id]

\* the exploits a seat can cast with the target given here
Castable ==
    [m10 |-> <<>>, d07 |-> <<>>, d09 |-> <<>>, t01 |-> <<TargetEnemyKitchen>>]

\* C20, between the seats: when one seat's plan casts "c06" (Protect) on
\* its card k of the feed and the other seat's plan casts "t01" (Damage 3)
\* on k, then with the initiative at the damaging seat k loses 3 virality
\* and with the initiative at the protecting seat k loses none; k ends
\* protected either way.
C20_DamageBeforeProtect ==
    \A P \in Seats : \A first \in Seats :
    \A pp \in PlansFor(game, P) : \A dp \in PlansFor(game, other(P)) :
    \A k \in Range(ids_of(game.feed)) :
        LET hp == IF P = "Host" THEN pp ELSE dp
            op == IF P = "Host" THEN dp ELSE pp
            a == apply_turn_for_seat(game, "Host", hp)
            b == apply_turn_for_seat(a.g, "Opponent", op)
            r == resolve_exploits(b.g, HostNode, first, hp, op)
        IN (/\ casts_on(game, P, pp, "c06", k)
            /\ casts_on(game, other(P), dp, "t01", k)
            /\ a.ret = "ok"
            /\ b.ret = "ok")
               => /\ r.ret = "ok"
                  /\ card_of(r.g.feed, k).protected_until_end
                  /\ card_of(r.g.feed, k).current_virality
                         = card_of(game.feed, k).current_virality
                               - (IF first = P THEN 0 ELSE 3)

\* C20, within a seat: a plan that casts two exploits of the seat's hand
\* puts them on the seat's Abyss in the order of the plan, whichever seat
\* has the initiative.
C20_PlanOrder ==
    \A seat \in Seats : \A first \in Seats :
        LET hand == game.players[seat].hand
        IN \A i \in 1..Len(hand) : \A j \in 1..Len(hand) :
               LET plan == TurnPlan(<<>>, <<>>,
                               <<ExploitAction(hand[i].instance_id,
                                               Castable[hand[i].variant_id]),
                                 ExploitAction(hand[j].instance_id,
                                               Castable[hand[j].variant_id])>>,
                               FALSE)
                   r == resolve_exploits(game, HostNode, first,
                            IF seat = "Host" THEN plan ELSE DefaultPlan,
                            IF seat = "Host" THEN DefaultPlan ELSE plan)
               IN (/\ i # j
                   /\ hand[i].variant_id \in DOMAIN Castable
                   /\ hand[j].variant_id \in DOMAIN Castable)
                      => /\ r.ret = "ok"
                         /\ ids_of(r.g.players[seat].abyss)
                                = ids_of(game.players[seat].abyss)
                                      \o <<hand[i].instance_id, hand[j].instance_id>>

\* C20: exploits resolve in initiative order: every exploit of the seat
\* holding the initiative is cast, in plan order, before any exploit of
\* the other seat, so the damage of the initiative seat is applied before
\* the other seat's Protect on the same card takes hold.
C20_InitiativeOrder == C20_DamageBeforeProtect /\ C20_PlanOrder

\* C20, its case: in turn 1 the Opponent has the initiative and a plan
\* casting "t01" on the Host's card of the feed, the Host a plan casting
\* "c06" on it, and the exploits resolved leave the card 3 virality lower
\* and protected.
C20_Witness ==
    /\ game.turn = 1
    /\ game.initiative = "Opponent"
    /\ \E hp \in PlansFor(game, "Host") : \E op \in PlansFor(game, "Opponent") :
       \E k \in Range(ids_of(game.feed)) :
           LET a == apply_turn_for_seat(game, "Host", hp)
               b == apply_turn_for_seat(a.g, "Opponent", op)
               r == resolve_exploits(b.g, HostNode, game.initiative, hp, op)
           IN /\ casts_on(game, "Host", hp, "c06", k)
              /\ casts_on(game, "Opponent", op, "t01", k)
              /\ b.ret = "ok"
              /\ r.ret = "ok"
              /\ card_of(r.g.feed, k).protected_until_end
              /\ card_of(r.g.feed, k).current_virality
                     = card_of(game.feed, k).current_virality - 3

\* the kitchen cards of `seat` that take_from_kitchen hands to resolve_posts
postable(g, seat) ==
    SelectSeq(g.players[seat].kitchen, LAMBDA c :
        HasKw(c, "Haste") \/ (c.frozen_turns = 0 /\ c.played_turn # g.turn))

\* 0-based feed indices of the Gatekeeper cards whose max_cost is above the
\* cost of `card`
gates_above(feed, card) ==
    {i \in 0..(Len(feed) - 1) :
        /\ HasKw(feed[i + 1], "Gatekeeper")
        /\ \E w \in feed[i + 1].keywords : w.k = "Gatekeeper" /\ card.cost < w.n}

\* C21: a posted card is inserted at the front of the feed, a Heavy card at
\* the end, and past every Gatekeeper of the feed whose max_cost is above the
\* card's cost; a card without abilities that is posted alone is found at
\* that index afterwards, or in its owner's Abyss when the index was the
\* last slot of a full feed.
C21_InsertionPoint ==
    \A seat \in Seats :
        \A k \in 1..Len(postable(game, seat)) :
            LET card == postable(game, seat)[k]
                idx == insert_index(game.feed, card)
                gates == gates_above(game.feed, card)
                g2 == resolve_posts(game, HostNode,
                          IF seat = "Host" THEN <<PostAction(card.instance_id)>>
                          ELSE <<>>,
                          IF seat = "Host" THEN <<>>
                          ELSE <<PostAction(card.instance_id)>>)
            IN /\ gates = {} =>
                      idx = IF HasKw(card, "Heavy") THEN Len(game.feed) ELSE 0
               /\ \A i \in gates : idx > i
               /\ idx <= Len(game.feed)
               /\ (card.abilities = <<>> /\ ~feed_lock_active(game)) =>
                      IF idx < FEED_SIZE
                      THEN g2.feed[idx + 1].instance_id = card.instance_id
                      ELSE \E a \in 1..Len(g2.players[card.owner].abyss) :
                               g2.players[card.owner].abyss[a].instance_id =
                                   card.instance_id

\* C21 witness: a feed with a Gatekeeper in its second slot; a cheap card
\* of the Host's kitchen is posted behind it and a Heavy card at the end.
C21_Witness ==
    /\ Len(game.feed) = 2
    /\ HasKw(game.feed[2], "Gatekeeper")
    /\ \E k \in 1..Len(postable(game, "Host")) :
           LET card == postable(game, "Host")[k]
           IN /\ ~HasKw(card, "Heavy")
              /\ gates_above(game.feed, card) = {1}
              /\ resolve_posts(game, HostNode, <<PostAction(card.instance_id)>>,
                               <<>>).feed[3].instance_id = card.instance_id
    /\ \E k \in 1..Len(postable(game, "Host")) :
           LET card == postable(game, "Host")[k]
           IN /\ HasKw(card, "Heavy")
              /\ resolve_posts(game, HostNode, <<PostAction(card.instance_id)>>,
                               <<>>).feed[3].instance_id = card.instance_id



\* the exploits of effect `e` in the hand of `seat`
holding(g, seat, e) ==
    SelectSeq(g.players[seat].hand, LAMBDA c :
        c.class.kind = "Exploit" /\ c.class.effect.e = e)

\* the cards of the kitchen of `seat` and the feed cards `seat` owns
board_cards(g, seat) ==
    g.players[seat].kitchen \o SelectSeq(g.feed, LAMBDA c : c.owner = seat)

\* C22: Execute cast on a card of the enemy kitchen or on an enemy card of
\* the feed removes it from there and puts it into its owner's Abyss,
\* whatever its shield and its protected_until_end flag.
C22_ExecuteRemoves ==
    \A seat \in Seats :
        \A e \in 1..Len(holding(game, seat, "Execute")) :
            \A t \in 1..Len(board_cards(game, other(seat))) :
                LET target == board_cards(game, other(seat))[t]
                    r == cast_exploit(game, HostNode, seat,
                             ExploitAction(holding(game, seat, "Execute")[e].instance_id,
                                           <<TargetCard(target.instance_id)>>))
                    abyss == r.g.players[target.owner].abyss
                IN /\ r.ret = "ok"
                   /\ \A c \in Range(board_cards(r.g, other(seat))) :
                          c.instance_id # target.instance_id
                   /\ \E a \in 1..Len(abyss) :
                          /\ abyss[a].instance_id = target.instance_id
                          /\ abyss[a].location = Loc("Abyss")

\* C22 witness: a turn was resolved in which the Opponent cast Execute; a
\* card of the Host that has a shield and was protected until the end of
\* the turn lies in the Host's Abyss.
C22_Witness ==
    /\ game.turn = 1
    /\ \E a \in 1..Len(game.players["Opponent"].abyss) :
           game.players["Opponent"].abyss[a].class.effect.e = "Execute"
    /\ \E a \in 1..Len(game.players["Host"].abyss) :
           LET card == game.players["Host"].abyss[a]
           IN card.shield > 0 /\ card.protected_until_end /\ is_meme(card)

\* the effects that act on one enemy card
SingleEnemyEffects == {"Damage", "Debuff", "Execute", "Silence"}

\* the plans of `seat` that only play a card from the hand, or do nothing
quiet_plans(g, seat) ==
    {r \in BoardPlans(g, seat) : r.exploits = <<>> /\ r.posts = <<>>}

\* the kitchen of `seat` as the exploits of the turn find it: after the
\* kitchen play of its own plan
kitchen_at_cast(g, seat, plan) ==
    apply_turn_for_seat([g EXCEPT !.phase = "Resolving"], seat, plan).g
        .players[seat].kitchen

\* C23: a single-card enemy exploit (Damage, Debuff, Execute, Silence) aimed
\* at a card of the enemy kitchen that is not Taunt while that kitchen holds
\* a Taunt card, or at a Stealth card of the enemy kitchen, is rejected with
\* an error and leaves the card as it was, whichever seat casts it.
C23_TauntStealthRejected ==
    game.phase = "Commit" =>
    \A seat \in Seats :
        \A plan \in BoardPlans(game, seat) :
            \A reply \in quiet_plans(game, other(seat)) :
                LET kitchen == kitchen_at_cast(game, other(seat), reply)
                    cast == plan.exploits[1]
                    k == PositionOf(kitchen, LAMBDA c :
                             c.instance_id = cast.target[1].id)
                    r == IF seat = "Host"
                         THEN resolve_turn(game, HostNode, plan, reply)
                         ELSE resolve_turn(game, HostNode, reply, plan)
                    after == r.g.players[other(seat)].kitchen
                IN (/\ Len(plan.exploits) = 1
                    /\ cast.target # <<>>
                    /\ cast.target[1].t = "Card"
                    /\ card_of(game.players[seat].hand, cast.card_id).class.effect.e
                           \in SingleEnemyEffects
                    /\ k # 0
                    /\ \/ has_taunt(kitchen) /\ ~HasKw(kitchen[k], "Taunt")
                       \/ HasKw(kitchen[k], "Stealth"))
                   => /\ r.ret # "ok"
                      /\ \E a \in 1..Len(after) : after[a] = kitchen[k]

\* the 0-based feed slot is pinned by a seat or holds an Anchor card
held_in_place(g, slot) ==
    \/ \E s \in Seats : slot \in Range(g.players[s].pinned_slots)
    \/ HasKw(g.feed[slot + 1], "Anchor")

\* C24: MoveUp cast on a feed slot leaves the feed in its order when the
\* card of that slot or the card of the slot above it, which it would
\* displace, has the Anchor keyword or sits in a pinned slot.
C24_MoveUpHeldInPlace ==
    \A seat \in Seats :
        \A e \in 1..Len(holding(game, seat, "MoveUp")) :
            \A slot \in 1..(Len(game.feed) - 1) :
                LET r == cast_exploit(game, HostNode, seat,
                             ExploitAction(holding(game, seat, "MoveUp")[e].instance_id,
                                           <<TargetFeedSlot(slot)>>))
                IN (held_in_place(game, slot) \/ held_in_place(game, slot - 1))
                   => ids_of(r.g.feed) = ids_of(game.feed)

\* resolve_turn with the plan of `seat` and the reply of the other seat
resolve_for(g, seat, plan, reply) ==
    IF seat = "Host" THEN resolve_turn(g, HostNode, plan, reply)
    ELSE resolve_turn(g, HostNode, reply, plan)

\* the feed of a turn once its posts are resolved, before the yield
feed_after_posts(g, seat, plan, reply) ==
    LET host_plan == IF seat = "Host" THEN plan ELSE reply
        opponent_plan == IF seat = "Host" THEN reply ELSE plan
        g1 == apply_turn_for_seat([g EXCEPT !.phase = "Resolving"], "Host",
                                  host_plan).g
        g2 == apply_turn_for_seat(g1, "Opponent", opponent_plan).g
        g3 == resolve_exploits(g2, HostNode, g2.initiative, host_plan,
                               opponent_plan).g
    IN resolve_posts(g3, HostNode, host_plan.posts, opponent_plan.posts).feed

\* the points the card in the 0-based slot credits to `seat`
slot_yield(feed, slot, seat) ==
    IF slot < Len(feed) /\ feed[slot + 1].owner = seat
    THEN (10 + slot * 5) * feed[slot + 1].yield_rate
    ELSE 0

C26_YieldScalesWithStakes ==
    game.phase = "Commit" =>
    \A s \in Seats :
        LET r == resolve_turn(game, HostNode, DefaultPlan, DefaultPlan)
        IN (/\ r.ret = "ok"
            /\ Len(game.feed) > 0
            /\ game.feed[1].owner = s
            /\ game.feed[1].yield_rate = 1
            /\ \A k \in 2..Len(game.feed) : game.feed[k].owner # s)
           => r.g.players[s].score =
                  game.players[s].score + BASE_FEED_YIELD * game.stakes

\* the draw counters of the two streams
draws_of(g) == <<g.rng.host_draws, g.rng.opponent_draws>>

\* C27 as stated: the feed shuffled with the same game seed, turn and kind
\* comes out in the same order every time, also when the shuffle is
\* repeated on the same feed within the game, after the draws of the first
\* shuffle.
C27_SameOrderWhenRepeated ==
    LET first == fair_shuffle_feed(game, HostNode)
        second == fair_shuffle_feed([first EXCEPT !.feed = game.feed], HostNode)
    IN /\ second.game_seed = game.game_seed
       /\ second.turn = game.turn
       /\ ids_of(second.feed) = ids_of(first.feed)

\* C27, amended: the order a shuffle gives to a feed is fixed by the game
\* seed and the number of draws made from the two streams before it: a game
\* built from the same seed that has made the same number of draws gives
\* the same order, on either node, and the turn and the kind passed to the
\* generator do not change it.
C27_ShuffleReproducible ==
    LET mine == ids_of(fair_shuffle_feed(game, HostNode).feed)
    IN /\ (remote.game_seed = game.game_seed /\ draws_of(remote) = draws_of(game))
           => \A node \in {HostNode, OpponentNode} :
                  ids_of(fair_shuffle_feed([remote EXCEPT !.feed = game.feed],
                                           node).feed) = mine
       /\ \A turn \in 0..(MaxTurn + 1) :
              \A kind \in {KindShuffleFeed, KindShuffleDeck("Host")} :
                  shuffle(game.rng, OpponentNode, ids_of(game.feed), turn,
                          kind).items = mine

\* C27 witness: a feed of three cards in a game that has made as many draws
\* as the other game built from its seed; the shuffle changes its order.
C27_Witness ==
    /\ Len(game.feed) = 3
    /\ remote.game_seed = game.game_seed
    /\ draws_of(remote) = draws_of(game)
    /\ ids_of(fair_shuffle_feed(game, HostNode).feed) # ids_of(game.feed)
    /\ ids_of(fair_shuffle_feed([remote EXCEPT !.feed = game.feed],
                                OpponentNode).feed)
           = ids_of(fair_shuffle_feed(game, HostNode).feed)

\* C28: in every reachable state the salt and the revealed plan of a seat's
\* pending commit are both absent or both present, and when they are
\* present the stored hash is the commitment of that plan under that salt.
C28_SaltAndPlanTogether ==
    \A seat \in Seats :
        game.players[seat].commit # <<>> =>
            LET c == game.players[seat].commit[1]
            IN /\ (c.salt = <<>>) <=> (c.revealed = <<>>)
               /\ c.revealed # <<>> =>
                      c.hash = commitment_for(c.revealed[1], c.salt[1])

\* C28 witness: one seat has revealed a plan that is not the empty one, its
\* salt is stored with it, and the other seat has committed and not
\* revealed.
C28_Witness ==
    \E seat \in Seats :
        /\ game.players[seat].commit # <<>>
        /\ game.players[seat].commit[1].revealed # <<>>
        /\ game.players[seat].commit[1].revealed[1] # DefaultPlan
        /\ game.players[seat].commit[1].salt = <<CommitSalt>>
        /\ game.players[other(seat)].commit # <<>>
        /\ game.players[other(seat)].commit[1].revealed = <<>>
        /\ game.players[other(seat)].commit[1].salt = <<>>

\* build_game has answered the request
answered == game # <<>> \/ ret # "ok"

\* the number of cards of `deck` that the catalog knows as `kind`
count_of(deck, kind) ==
    Cardinality({i \in 1..Len(deck) :
        /\ find_definition(deck[i]) # <<>>
        /\ find_definition(deck[i])[1].kind = kind})

\* exactly 12 cards, 4 of them memes and 8 exploits
passes_validation(deck) ==
    Len(deck) = 12 /\ count_of(deck, "Meme") = 4 /\ count_of(deck, "Exploit") = 8

in_catalog(deck) == \A i \in 1..Len(deck) : find_definition(deck[i]) # <<>>

\* the match build_game creates from two decks of this validity
created_as_claimed ==
    LET host_valid == passes_validation(remote.host_deck)
        opponent_valid == passes_validation(remote.opponent_deck)
    IN /\ ret = "ok"
       /\ game # <<>>
       /\ IF host_valid /\ opponent_valid
          THEN /\ game.phase = "Commit"
               /\ game.turn = 0
               /\ game.stakes = 1
               /\ game.winner = <<>>
          ELSE /\ game.phase = "GameOver"
               /\ game.winner = IF host_valid THEN <<"Host">>
                                ELSE IF opponent_valid THEN <<"Opponent">>
                                ELSE <<>>

\* C29 as stated: match creation never refuses a deck that is not exactly
\* 12 cards, 4 memes and 8 exploits: the match is created in GameOver with
\* the seat of the valid deck as winner, or no winner when both decks are
\* invalid; two valid decks start in Commit at turn 0 with stakes 1 and no
\* winner.
C29_NeverRefused == answered => created_as_claimed

\* C29, amended: the same for decks that name cards of the catalog only; a
\* request with a deck that names a card the catalog does not hold is
\* refused with an error and no match is created.
C29_CreatedUnlessUnknownCard ==
    answered =>
        IF in_catalog(remote.host_deck) /\ in_catalog(remote.opponent_deck)
        THEN created_as_claimed
        ELSE ret # "ok" /\ game = <<>>

\* C29 witness: a match created from a Host deck of 12 cards with 5 memes
\* and a valid Opponent deck: it is over and the Opponent has won.
C29_Witness ==
    /\ answered
    /\ Len(remote.host_deck) = 12
    /\ count_of(remote.host_deck, "Meme") = 5
    /\ passes_validation(remote.opponent_deck)
    /\ ret = "ok"
    /\ game.phase = "GameOver"
    /\ game.winner = <<"Opponent">>

\* the Host's deck as instantiated and shuffled, before the opening hand
shuffled_host_deck ==
    ids_of(shuffle(FairRandomState_new(remote.seed), HostNode,
                   instantiate_deck(remote.host_deck, "Host", 1), 0,
                   KindShuffleDeck("Host")).items)

\* the opening hand is the pair number `rejected` + 1 from the end of the
\* deck `all`, the pairs behind it hold no meme and lie at the front of the
\* deck in the order they had, before the cards that were never pulled
opening_hand_after(all, rejected) ==
    LET n == Len(all)
        p == game.players["Host"]
        behind == SubSeq(all, n - 2 * rejected + 1, n)
    IN /\ ids_of(p.hand) = SubSeq(all, n - 2 * rejected - 1, n - 2 * rejected)
       /\ ids_of(p.deck) = behind \o SubSeq(all, 1, n - 2 * rejected - 2)
       /\ \A i \in 1..Len(p.deck) : i <= 2 * rejected => ~is_meme(p.deck[i])

\* C30: for every valid deck of 12 cards with its 4 memes in any order the
\* opening hand is drawn successfully: 2 cards, at least one of them a
\* meme, every rejected pair back in the deck in its original order, and
\* deck and hand together the 12 instances of the deck.
C30_StartingHand ==
    (answered /\ passes_validation(remote.host_deck)) =>
        /\ ret = "ok"
        /\ game # <<>>
        /\ LET p == game.players["Host"]
           IN /\ Len(p.hand) = 2
              /\ \E i \in 1..2 : is_meme(p.hand[i])
              /\ Len(p.deck) = 10
              /\ Range(ids_of(p.deck)) \cup Range(ids_of(p.hand))
                     = {instance_id(remote.host_deck[i], i) : i \in 1..12}
              /\ p.abyss = <<>>
              /\ \E rejected \in 0..4 :
                     opening_hand_after(shuffled_host_deck, rejected)

\* C30 witness: a valid deck whose first two pairs hold no meme; they are
\* back in the deck and the hand is the third pair, with one meme in it.
C30_Witness ==
    /\ answered
    /\ passes_validation(remote.host_deck)
    /\ ret = "ok"
    /\ opening_hand_after(shuffled_host_deck, 2)
    /\ Cardinality({i \in 1..2 : is_meme(game.players["Host"].hand[i])}) = 1

\* the instance ids of the cards of a zone
id_set(cards) == {cards[i].instance_id : i \in 1..Len(cards)}

\* the GameState of a turn when its posts are about to be resolved: both
\* plans applied and the exploits cast
before_posts(g, host_plan, opponent_plan) ==
    Try(apply_turn_for_seat([g EXCEPT !.phase = "Resolving"], "Host", host_plan),
        LAMBDA g1 :
    Try(apply_turn_for_seat(g1, "Opponent", opponent_plan), LAMBDA g2 :
    resolve_exploits(g2, HostNode, g2.initiative, host_plan, opponent_plan)))

\* the plans of `seat` that post: its first meme played or not, LockFeed
\* cast or not, and one card named, or all of them, among the kitchen
\* cards and the meme played
posting_plans(g, seat) ==
    LET p == g.players[seat]
        memes == ids_where(p.hand, is_meme)
        locks == ids_where(p.hand, LAMBDA c : c.class.effect.e = "LockFeed")
        plays == {<<>>} \cup (IF memes = <<>> THEN {} ELSE {<<memes[1]>>})
        casts == {<<>>} \cup (IF locks = <<>> THEN {}
                              ELSE {<<ExploitAction(locks[1], <<>>)>>})
        named == ids_where(p.kitchen, LAMBDA c : TRUE)
                     \o (IF memes = <<>> THEN <<>> ELSE <<memes[1]>>)
        posts == {<<PostAction(named[i])>> : i \in 1..Len(named)}
                     \cup {[i \in 1..Len(named) |-> PostAction(named[i])]}
    IN {TurnPlan(play, post, cast, FALSE) :
            play \in plays, post \in posts, cast \in casts}

only_posts(g, seat) ==
    {r \in posting_plans(g, seat) : r.plays_to_kitchen = <<>> /\ r.exploits = <<>>}

\* a card that is inserted at the front of the feed and does nothing on
\* its way in
plain(card, feed) ==
    /\ ~HasKw(card, "Heavy")
    /\ card.abilities = <<>>
    /\ gates_above(feed, card) = {}

\* C32: the posted cards of both seats enter the feed one at a time by
\* current virality descending, the initiative seat's card first among
\* cards of equal virality of different seats: of two cards posted in one
\* turn that are inserted at the front, the one inserted first lies below
\* the other, so the card of higher virality lies below, and at equal
\* virality the initiative seat's card lies below.
C32_PostOrder ==
    game.phase = "Commit" =>
    \A host_plan \in only_posts(game, "Host") :
        \A opponent_plan \in only_posts(game, "Opponent") :
            LET g2 == resolve_posts(game, HostNode, host_plan.posts,
                                    opponent_plan.posts)
                was(id) == LET s == CHOOSE s \in Seats :
                                        id \in id_set(game.players[s].kitchen)
                           IN card_of(game.players[s].kitchen, id)
                posted == {id \in id_set(g2.feed) :
                              \E s \in Seats : id \in id_set(game.players[s].kitchen)}
                slot(id) == PositionOf(g2.feed, LAMBDA c : c.instance_id = id)
            IN \A a, b \in posted :
                   (/\ plain(was(a), game.feed)
                    /\ plain(was(b), game.feed)
                    /\ \/ was(a).current_virality > was(b).current_virality
                       \/ /\ was(a).current_virality = was(b).current_virality
                          /\ was(a).owner = game.initiative
                          /\ was(b).owner # game.initiative)
                   => slot(a) > slot(b)

\* C32 witness: both seats have posted their Haste card "n09" in turn 0 at
\* equal virality; the card of the seat that held the initiative in that
\* turn lies below the other seat's.
C32_Witness ==
    /\ game.turn = 1
    /\ Len(game.feed) = 2
    /\ game.feed[1].variant_id = "n09"
    /\ game.feed[2].variant_id = "n09"
    /\ game.feed[1].current_virality = game.feed[2].current_virality
    /\ game.feed[1].owner = game.initiative
    /\ game.feed[2].owner = other(game.initiative)

\* C33: a LockFeed exploit cast by either seat sets a feed-locked flag for
\* the rest of the turn, and with a flag set the post step does nothing:
\* resolve_posts leaves the GameState as it was, and when the turn is over
\* no card that was in a kitchen is in the feed and each is still in its
\* owner's kitchen.
C33_FeedLock ==
    game.phase = "Commit" =>
    \A seat \in Seats : \A plan \in posting_plans(game, seat) :
        \A reply \in {DefaultPlan} \cup only_posts(game, other(seat)) :
            LET host_plan == IF seat = "Host" THEN plan ELSE reply
                opponent_plan == IF seat = "Host" THEN reply ELSE plan
                b == before_posts(game, host_plan, opponent_plan)
                r == resolve_turn(game, HostNode, host_plan, opponent_plan)
                cooking(g) == id_set(g.players["Host"].kitchen)
                                  \cup id_set(g.players["Opponent"].kitchen)
            IN (plan.exploits # <<>> /\ b.ret = "ok") =>
                   /\ feed_lock_active(b.g)
                   /\ resolve_posts(b.g, HostNode, host_plan.posts,
                                    opponent_plan.posts) = b.g
                   /\ r.ret = "ok"
                   /\ id_set(r.g.feed) \cap cooking(b.g) = {}
                   /\ id_set(r.g.feed) = id_set(b.g.feed)
                   /\ \A s \in Seats :
                          id_set(b.g.players[s].kitchen)
                              = id_set(r.g.players[s].kitchen)

\* C33 witness: the Host has cast LockFeed ("m06") in turn 0 on a board
\* whose kitchens hold a Haste card of each seat; the feed is still empty
\* and the Opponent's Haste card is in its kitchen.
C33_Witness ==
    /\ game.turn = 1
    /\ game.feed = <<>>
    /\ \E k \in 1..Len(game.players["Host"].abyss) :
           game.players["Host"].abyss[k].variant_id = "m06"
    /\ \E k \in 1..Len(game.players["Opponent"].kitchen) :
           /\ game.players["Opponent"].kitchen[k].variant_id = "n09"
           /\ game.players["Opponent"].kitchen[k].played_turn = 0
    /\ \E k \in 1..Len(game.players["Host"].kitchen) :
           game.players["Host"].kitchen[k].variant_id = "n09"

\* C34: end-of-turn protection lasts one turn: once a turn has resolved and
\* the next has begun, no card of a kitchen or of the feed has its
\* protected_until_end flag set.
C34_ProtectionEndsWithTurn ==
    (game.phase = "Commit" /\ game.turn > 0) =>
        /\ \A k \in 1..Len(game.feed) : ~game.feed[k].protected_until_end
        /\ \A s \in Seats : \A k \in 1..Len(game.players[s].kitchen) :
               ~game.players[s].kitchen[k].protected_until_end

\* the largest tax tried on reset_for_new_turn: above the mana cap, so that
\* the refreshed pool is emptied
TaxRange == 0..(MANA_CAP + 2)

\* C35: when a turn advances, each seat's max mana becomes
\* min(previous max mana + 1, 10), its mana max(max mana - tax accrued in
\* the turn, 0), and its pending tax, pinned slots and feed-lock flag are
\* cleared; max mana never exceeds 10 and never decreases.  The same holds
\* of reset_for_new_turn for every tax up to two above the cap.
C35_ManaReset ==
    /\ \A s \in Seats : game.players[s].max_mana <= MANA_CAP
    /\ \A s \in Seats : \A tax \in TaxRange :
           LET p == [game.players[s] EXCEPT !.mana_tax_next = tax]
               q == reset_for_new_turn(p)
           IN /\ q.max_mana = Min(p.max_mana + 1, 10)
              /\ q.mana = Max(q.max_mana - tax, 0)
              /\ q.mana_tax_next = 0 /\ q.pinned_slots = <<>> /\ ~q.feed_locked
    /\ game.phase = "Commit" =>
       \A seat \in Seats : \A plan \in BoardPlans(game, seat) :
           \A reply \in quiet_plans(game, other(seat)) :
               LET host_plan == IF seat = "Host" THEN plan ELSE reply
                   opponent_plan == IF seat = "Host" THEN reply ELSE plan
                   b == before_posts(game, host_plan, opponent_plan)
                   r == resolve_turn(game, HostNode, host_plan, opponent_plan)
               IN (r.ret = "ok" /\ r.g.turn = game.turn + 1) =>
                  \A s \in Seats :
                      LET p == game.players[s]
                          q == r.g.players[s]
                      IN /\ q.max_mana = Min(p.max_mana + 1, 10)
                         /\ q.max_mana >= p.max_mana
                         /\ q.mana = Max(q.max_mana
                                             - b.g.players[s].mana_tax_next, 0)
                         /\ q.mana_tax_next = 0
                         /\ q.pinned_slots = <<>>
                         /\ ~q.feed_locked

\* C35 witness: a match in its second turn after the Host has cast Tax
\* ("d08") in the first: max mana went from 2 to 3 for both seats and the
\* Opponent starts the turn with 3 - 2 = 1 mana.
C35_Witness ==
    /\ game.turn = 1
    /\ \E k \in 1..Len(game.players["Host"].abyss) :
           game.players["Host"].abyss[k].variant_id = "d08"
    /\ game.players["Host"].max_mana = STARTING_MANA + 1
    /\ game.players["Host"].mana = STARTING_MANA + 1
    /\ game.players["Opponent"].max_mana = STARTING_MANA + 1
    /\ game.players["Opponent"].mana = 1
    /\ game.players["Opponent"].mana_tax_next = 0

\* the stake multipliers the doubling steps lead to from g: accept_based
\* and the re-raising call_based while a claim stands, and both plans
\* calling the stake
doubled_stakes(g) ==
    {accept_based(g, HostNode, seat).g.stakes :
         seat \in {s \in Seats : g.pending_stakes # <<>>}}
        \cup {call_based(g, seat).g.stakes :
                  seat \in {s \in Seats : claimed_by_other(g, s)}}
        \cup {process_based_calls(g, TRUE, TRUE).stakes}

\* C36 as stated: the stake multiplier starts at 1, never decreases, and
\* every doubling step sets it to exactly twice its previous value,
\* however many doublings came before.
C36_ExactDoubling ==
    /\ game.stakes = 1
    /\ [](\A stakes \in doubled_stakes(game) : stakes = 2 * game.stakes)
    /\ [][game'.stakes >= game.stakes]_vars

\* C36, amended: the same, with each doubling step setting the multiplier
\* to twice its previous value up to the u8 maximum, where it stays.
C36_SaturatingDoubling ==
    /\ game.stakes = 1
    /\ [](\A stakes \in doubled_stakes(game) :
              stakes = Min(2 * game.stakes, U8_MAX))
    /\ [][game'.stakes >= game.stakes]_vars

\* C36 witness: after seven doublings the multiplier was 128 and the
\* eighth has set it to 255; a claim stands again and the next doubling
\* leaves it at 255.
C36_Witness ==
    /\ game.stakes = U8_MAX
    /\ game.pending_stakes # <<>>
    /\ doubled_stakes(game) = {U8_MAX}

\* the bounds a draw is asked with: 0, and up to one more than the feed
\* holds
DrawBounds == 0..(FEED_SIZE + 1)

\* a history record as generate writes it: two contributions, the Host's
\* then the Opponent's, with values below the bound, and their sum modulo
\* the bound as the result
well_formed(ev) ==
    /\ ev.bound > 0
    /\ Len(ev.contributions) = 2
    /\ ev.contributions[1].seat = "Host"
    /\ ev.contributions[2].seat = "Opponent"
    /\ \A k \in 1..2 : ev.contributions[k].value \in 0..(ev.bound - 1)
    /\ ev.result = (ev.contributions[1].value + ev.contributions[2].value)
                       % ev.bound

\* C37: the history holds one well-formed record per draw and its length
\* equals both seats' draw counters; a generate call with a bound above 0
\* adds 1 to both counters and appends exactly one well-formed record whose
\* result it returns, and a call with bound 0 returns 0 and leaves the
\* counters and the history as they were.
C37_DrawBookkeeping ==
    LET rng == game.rng
    IN /\ Len(rng.history) = rng.host_draws
       /\ Len(rng.history) = rng.opponent_draws
       /\ \A k \in 1..Len(rng.history) : well_formed(rng.history[k])
       /\ \A bound \in DrawBounds :
              LET r == generate(rng, HostNode, bound, game.turn, KindShuffleFeed)
              IN IF bound = 0 THEN r.result = 0 /\ r.rng = rng
                 ELSE /\ r.rng.host_draws = rng.host_draws + 1
                      /\ r.rng.opponent_draws = rng.opponent_draws + 1
                      /\ Len(r.rng.history) = Len(rng.history) + 1
                      /\ SubSeq(r.rng.history, 1, Len(rng.history)) = rng.history
                      /\ well_formed(r.rng.history[Len(r.rng.history)])
                      /\ r.rng.history[Len(r.rng.history)].bound = bound
                      /\ r.rng.history[Len(r.rng.history)].result = r.result

\* C37 witness: a feed of three cards has been shuffled in turn 0: past the
\* draws of the two deck shuffles the history holds two ShuffleFeed
\* records, of bounds 3 and 2, and both counters stand at its length.
C37_Witness ==
    LET h == game.rng.history
    IN /\ game.turn = 1
       /\ Len(h) = 2 * (MAX_DECK_SIZE - 1) + 2
       /\ h[Len(h) - 1].kind = KindShuffleFeed /\ h[Len(h) - 1].bound = 3
       /\ h[Len(h)].kind = KindShuffleFeed /\ h[Len(h)].bound = 2
       /\ game.rng.host_draws = Len(h)
       /\ game.rng.opponent_draws = Len(h)

\* C38: every stored commit is tagged with the current turn counter, so no
\* commit is left over from an earlier turn and record_reveal never answers
\* "commit turn mismatch".
C38_CommitOfCurrentTurn ==
    \A seat \in Seats :
        /\ game.players[seat].commit # <<>>
               => game.players[seat].commit[1].turn = game.turn
        /\ \A plan \in PlansFor(game, seat) : \A salt \in Salts :
               /\ reveal_error(game, seat, plan, salt) # "commit turn mismatch"
               /\ record_reveal(game, HostNode, seat, plan, salt).ret
                      # "commit turn mismatch"

\* C38 witness: turn 0 was resolved and a seat has committed again: its
\* commit carries turn 1, and the other seat's commit of turn 0 is gone.
C38_Witness ==
    /\ game.turn = 1
    /\ \E seat \in Seats :
           /\ game.players[seat].commit # <<>>
           /\ game.players[seat].commit[1].turn = 1
           /\ game.players[other(seat)].commit = <<>>

\* the state of play a resolution would change: the turn counter and, for
\* each seat, its score, its mana and its cards in every zone
state_of_play(g) ==
    <<g.turn, g.feed,
      [s \in Seats |-> <<g.players[s].score, g.players[s].mana,
                         g.players[s].max_mana, ZonesOf(g, s)>>]>>

\* C39: while a stake claim is pending, no record_commit and no
\* record_reveal (a second reveal that makes both plans available
\* included) changes the turn counter, the scores, the mana or the card
\* zones, and none of them ends the claim: a claimant stays set.  The
\* claim ends by accept_based, by fold_based, or by call_based of the
\* other seat (a re-raise); call_based of the claimant keeps it.
C39_PendingClaimSuspends ==
    game.pending_stakes # <<>> =>
        \A seat \in Seats :
            /\ \A plan \in PlansFor(game, seat) : \A salt \in Salts :
                   /\ Let(record_commit(game, seat, commitment_for(plan, salt)),
                          LAMBDA r :
                              /\ state_of_play(r.g) = state_of_play(game)
                              /\ r.g.pending_stakes # <<>>)
                   /\ Let(record_reveal(game, HostNode, seat, plan, salt),
                          LAMBDA r :
                              /\ state_of_play(r.g) = state_of_play(game)
                              /\ r.g.pending_stakes # <<>>)
            /\ accept_based(game, HostNode, seat).g.pending_stakes = <<>>
            /\ fold_based(game, seat).g.pending_stakes = <<>>
            /\ call_based(game, seat).g.pending_stakes = <<>>
                   <=> player_node(game, seat) # game.pending_stakes[1]

\* C39 witness: a claim was made before the reveals; both seats have since
\* committed and revealed, the second reveal made both plans available,
\* and the turn is still not resolved
C39_Witness ==
    /\ game.pending_stakes # <<>>
    /\ game.phase = "StakePending"
    /\ ready_to_resolve(game)
    /\ ~plan_for(game, "Host").based
    /\ ~plan_for(game, "Opponent").based
    /\ game.turn = 0
    /\ game.stakes = 1

\* the four messages of one turn: the commit and the reveal of the Host,
\* then those of the Opponent
turn_messages(g, host_plan, host_salt, opp_plan, opp_salt) ==
    <<WireCommit("Host", commitment_for(host_plan, CommitSalt), g.turn),
      WireReveal("Host", host_plan, host_salt, g.turn),
      WireCommit("Opponent", commitment_for(opp_plan, CommitSalt), g.turn),
      WireReveal("Opponent", opp_plan, opp_salt, g.turn)>>

\* the orders of the four messages that keep each seat's commit before
\* that seat's reveal
Interleavings ==
    {o \in [1..4 -> 1..4] :
        /\ \A i, j \in 1..4 : o[i] = o[j] => i = j
        /\ \A i, j \in 1..4 : (o[i] = 1 /\ o[j] = 2) => i < j
        /\ \A i, j \in 1..4 : (o[i] = 3 /\ o[j] = 4) => i < j}

\* the Host's node handles its own two messages first, the Opponent's
\* node its own
HostFirst == <<1, 2, 3, 4>>
OpponentFirst == <<3, 4, 1, 2>>

in_order(messages, o) == [i \in 1..4 |-> messages[o[i]]]

\* a RandomEvent without the signatures of its contributions, which name
\* the node that recorded the draw
unsigned(ev) ==
    [ev EXCEPT !.contributions =
         [i \in 1..Len(ev.contributions) |->
             [ev.contributions[i] EXCEPT !.signature = ""]]]

unsigned_events(g) ==
    [g EXCEPT !.rng.history = [i \in 1..Len(g.rng.history) |->
                                  unsigned(g.rng.history[i])],
              !.events = [i \in 1..Len(g.events) |->
                             IF g.events[i].event = "Random"
                             THEN [g.events[i] EXCEPT !.random = unsigned(@)]
                             ELSE g.events[i]]]

\* two GameStates alike in all but the signatures of the recorded draws
same_play(g1, g2) == unsigned_events(g1) = unsigned_events(g2)

start_of_turn ==
    \A s \in Seats : game.players[s].commit = <<>> /\ remote.players[s].commit = <<>>

\* C40: at the start of a turn, for every plan each seat may commit and
\* every salt it may reveal with, each of the six orders of the four
\* messages that keep a seat's commit before its reveal leaves a node in
\* the same GameState, and the Host's node and the Opponent's node end in
\* the same phase, turn, board, scores and stake state.
C40_DeliveryOrder ==
    start_of_turn =>
        \A hp \in PlansFor(game, "Host") : \A op \in PlansFor(game, "Opponent") :
            \A hs \in Salts : \A os \in Salts :
                Let(turn_messages(game, hp, hs, op, os), LAMBDA m :
                    Let(<<deliver(game, HostNode, in_order(m, HostFirst), 1),
                          deliver(remote, OpponentNode, in_order(m, OpponentFirst), 1)>>,
                        LAMBDA end :
                            /\ same_play(end[1], end[2])
                            /\ \A o \in Interleavings :
                                   /\ deliver(game, HostNode, in_order(m, o), 1) = end[1]
                                   /\ deliver(remote, OpponentNode, in_order(m, o), 1)
                                          = end[2]))

\* C40 witness: turn 0 was resolved on both nodes and turn 1 starts; there
\* are plans whose four messages, handled by the Host's node in one order
\* and by the Opponent's node in another, resolve turn 1 on both: both
\* seats score, and a draw is recorded (ShuffleFeed), so that the two
\* GameStates differ, and only in the signatures
C40_Witness ==
    /\ start_of_turn
    /\ game.turn = 1
    /\ game.phase = "Commit"
    /\ \E hp \in PlansFor(game, "Host") : \E op \in PlansFor(game, "Opponent") :
           Let(turn_messages(game, hp, CommitSalt, op, CommitSalt), LAMBDA m :
               Let(<<deliver(game, HostNode, in_order(m, HostFirst), 1),
                     deliver(remote, OpponentNode, in_order(m, OpponentFirst), 1)>>,
                   LAMBDA end :
                       /\ \A s \in Seats : end[1].players[s].score
                                                > game.players[s].score
                       /\ end[1].players = end[2].players
                       /\ Len(end[1].feed) >= 2
                       /\ Len(end[1].rng.history) > Len(game.rng.history)
                       /\ end[1] # end[2]))

=============================================================================
